---------------------------- MODULE Spec2Model ----------------------------
(***************************************************************************)
(* A model of kubecuro (nisharas/kubepulse): the Shield rule catalog, the  *)
(* Synapse cross-resource auditor, the Healer, and the audit and the fix   *)
(* pipeline of AuditEngineV2.                                              *)
(*                                                                         *)
(* Every component has its own group of variables and its own              *)
(* specifications; a specification leaves the variables of the other       *)
(* components at their idle values.                                        *)
(*                                                                         *)
(* Data model.  A decoded YAML mapping is a TLA+ function on the keys it   *)
(* holds (a record), so that `k in d` is k \in DOMAIN d and               *)
(* d.get(k, default) is Get(d, k, default); the empty dict is <<>>.  A     *)
(* YAML list is a sequence.  Every key holds values of one type (string,   *)
(* integer, boolean, mapping or list).  A key whose value may be of        *)
(* several Python types (a port given as a number or as a name, a flag     *)
(* given as a boolean or as a string) holds a wrapped scalar: [int |-> n], *)
(* [str |-> s] or [bool |-> b].  Python's None, where the code would meet  *)
(* it in place of a mapping, is the value None.  A string-valued key the   *)
(* code reads with d.get(k) is read with the default "", which stands for  *)
(* Python's None there.                                                    *)
(***************************************************************************)
EXTENDS Integers, Sequences, FiniteSets, TLC

VARIABLES
    \* ---- AuditEngineV2._execute_zero_downtime_fixes / _atomic_fix ----
    disk,        \* file index -> [target, backup]: what each path holds
    changed,     \* file index -> has_changed of the loop body (healed /= original)
    dry_run,     \* AuditEngineV2.dry_run
    afpc,        \* position in execute / the fix loop / _atomic_fix
    afFile,      \* index of the file the loop is at
    afRenamed,   \* the current _atomic_fix call has renamed target to backup
    afFail,      \* the step of the current _atomic_fix call that raised
    afRet,       \* file index -> how _atomic_fix ended for it
    \* ---- Shield: one call of a rule check ----
    doc,         \* the document the check is called on
    all_docs,    \* the corpus handed to the cross-resource checks
    shpc,        \* "idle", "call" (before the call) or "done" (after it)
    shOut,       \* what the call produced: [raised, findings]
    \* ---- Synapse: scan_file on every file, then audit ----
    corpus,      \* the files on disk: a sequence of [name, docs]
    synapse,     \* the lists of the Synapse instance
    synFile,     \* index in corpus of the next file scan_file is called on
    results,     \* what audit() produced: [raised, findings]
    synpc,       \* "idle", "scan" (files left to scan), "audit" or "done"
    \* ---- AuditEngineV2._filter_baseline: one call ----
    issues,      \* the issues the call is handed
    baseline,    \* AuditEngineV2.baseline: a set of fingerprints
    show_all,    \* AuditEngineV2.show_all
    reporting,   \* the list the call returns
    suppressed,  \* the dict of the call: code -> number of suppressed issues
    fbpc,        \* "idle", "call" or "done"
    \* ---- Healer: heal_file passes over one file; one call of
    \* ---- apply_security_patches
    content,     \* the text of the file: [lead, segs]
    healFlags,   \* [apply_fixes, apply_defaults, dry_run, return_content]
    passes,      \* what each heal_file call so far returned and was given
    hDoc,        \* the document apply_security_patches is called on
    hOut,        \* what that call left: [raised, doc, codes]
    healpc,      \* "idle", "heal", "call" or "done"
    \* ---- AuditEngineV2.audit: the loop over the files, then the global
    \* ---- sync; its list of issues is the variable issues above
    files,       \* what _find_yaml_files returned: a sequence of files
    auDefaults,  \* AuditEngineV2.apply_defaults
    fileIdx,     \* i of the loop: the number of files the loop has taken
    syn,         \* the lists of the Synapse instance of the call
    seen,        \* the set of idents of the issues appended so far
    crossLog,    \* for every run of the cross-resource checks: who ran it,
                 \* at which file, and the files whose documents it was handed
    aupc         \* "idle", "files" (files left), "sync" or "done"

fixVars == <<disk, changed, dry_run, afpc, afFile, afRenamed, afFail, afRet>>

shieldVars == <<doc, all_docs, shpc, shOut>>

synVars == <<corpus, synapse, synFile, results, synpc>>

baseVars == <<issues, baseline, show_all, reporting, suppressed, fbpc>>

healVars == <<content, healFlags, passes, hDoc, hOut, healpc>>

auditVars == <<files, auDefaults, fileIdx, syn, seen, crossLog, aupc>>

vars == <<fixVars, shieldVars, synVars, baseVars, healVars, auditVars>>

(***************************************************************************)
(* Bounds of the model.                                                    *)
(***************************************************************************)
NumFiles == 2

Files == 1..NumFiles

\* The longest corpus (list of documents) a check is handed.
MaxDocs == 2

\* The most containers of a pod spec.
MaxContainers == 2

\* The sequences over S of length at most n.
SeqsUpTo(S, n) == UNION {[1..k -> S] : k \in 0..n}

(***************************************************************************)
(* Python values.                                                          *)
(***************************************************************************)
EmptyDict == <<>>

None == [None |-> "None"]

PyInt(n) == [int |-> n]

PyStr(s) == [str |-> s]

PyBool(b) == [bool |-> b]

IsInt(v) == "int" \in DOMAIN v

IsStr(v) == "str" \in DOMAIN v

IsBool(v) == "bool" \in DOMAIN v

IsDict(v) == v # None /\ ~IsInt(v) /\ ~IsStr(v) /\ ~IsBool(v)

\* d.get(k, default)
Get(d, k, default) == IF k \in DOMAIN d THEN d[k] ELSE default

\* bool(v) of a wrapped scalar, of None or of a mapping
Truthy(v) ==
    IF v = None THEN FALSE
    ELSE IF IsBool(v) THEN v.bool
    ELSE IF IsInt(v) THEN v.int # 0
    ELSE IF IsStr(v) THEN v.str # ""
    ELSE DOMAIN v # {}

\* `sig in s` of two Python strings
Contains(sig, s) ==
    \E i \in 1..(Len(s) - Len(sig) + 1) : SubSeq(s, i, i + Len(sig) - 1) = sig

\* s.endswith(suffix)
EndsWith(s, suffix) ==
    Len(s) >= Len(suffix) /\ SubSeq(s, Len(s) - Len(suffix) + 1, Len(s)) = suffix

RECURSIVE Flatten(_)
\* The concatenation of a sequence of sequences.
Flatten(ss) == IF ss = <<>> THEN <<>> ELSE Head(ss) \o Flatten(Tail(ss))

\* [f(x) for x in s]
Map(s, f(_)) == [i \in 1..Len(s) |-> f(s[i])]

\* next((x for x in s if p(x)), None): the index of the first x, or 0
FirstIndex(s, p(_)) ==
    IF \E i \in 1..Len(s) : p(s[i])
      THEN CHOOSE i \in 1..Len(s) : p(s[i]) /\ \A j \in 1..(i - 1) : ~p(s[j])
      ELSE 0

\* The elements of a sequence.
Range(s) == {s[i] : i \in 1..Len(s)}

RECURSIVE Dedup(_)
\* The distinct elements of a sequence, each at its first place.
Dedup(s) ==
    IF s = <<>> THEN <<>>
    ELSE LET r == Dedup(SubSeq(s, 1, Len(s) - 1))
             x == s[Len(s)]
         IN  IF x \in Range(r) THEN r ELSE Append(r, x)

\* What a call produced: it returned a list of findings, or it raised.
Return(fs) == [raised |-> FALSE, findings |-> fs]

Raise == [raised |-> TRUE, findings |-> <<>>]

(***************************************************************************)
(* ---------------------------------------------------------------------- *)
(* Shield (shield.py).                                                     *)
(***************************************************************************)
\* The severity constants, shield.py 15-18.  The strings of the code start
\* with an emoji, written here as the name of its colour: Shield.HIGH is
\* the orange circle followed by " HIGH".
CRITICAL == "(red) CRITICAL"

HIGH == "(orange) HIGH"

MEDIUM == "(yellow) MEDIUM"

LOW == "(blue) INFO"

\* add_finding, shield.py 23-30.  Every code the checks pass is written in
\* capitals, so code.upper() is the code.  msg holds the values the f-string
\* of the message interpolates.
add_finding(code, severity, msg, line) ==
    [code |-> code, severity |-> severity, msg |-> msg, line |-> line]

\* Shield.DEPRECATIONS, shield.py 33-56: a per-kind mapping, or a single
\* replacement (a wrapped string).
DEPRECATIONS ==
    ("extensions/v1beta1" :>
        [Ingress |-> "networking.k8s.io/v1",
         Deployment |-> "apps/v1",
         DaemonSet |-> "apps/v1",
         ReplicaSet |-> "apps/v1",
         NetworkPolicy |-> "networking.k8s.io/v1",
         PodSecurityPolicy |-> "REMOVED (Use Admission Controllers)",
         default |-> "apps/v1"])
    @@ ("networking.k8s.io/v1beta1" :> PyStr("networking.k8s.io/v1"))
    @@ ("policy/v1beta1" :> PyStr("policy/v1"))
    @@ ("rbac.authorization.k8s.io/v1beta1" :> PyStr("rbac.authorization.k8s.io/v1"))
    @@ ("autoscaling/v2beta1" :> PyStr("autoscaling/v2"))
    @@ ("autoscaling/v2beta2" :> PyStr("autoscaling/v2"))
    @@ ("admissionregistration.k8s.io/v1beta1" :> PyStr("admissionregistration.k8s.io/v1"))
    @@ ("apiextensions.k8s.io/v1beta1" :> PyStr("apiextensions.k8s.io/v1"))
    @@ ("storage.k8s.io/v1beta1" :> PyStr("storage.k8s.io/v1"))
    @@ ("scheduling.k8s.io/v1beta1" :> PyStr("scheduling.k8s.io/v1"))
    @@ ("node.k8s.io/v1beta1" :> PyStr("node.k8s.io/v1"))
    @@ ("discovery.k8s.io/v1beta1" :> PyStr("discovery.k8s.io/v1"))
    @@ ("flowcontrol.apiserver.k8s.io/v1beta2" :> PyStr("flowcontrol.apiserver.k8s.io/v1beta3"))
    @@ ("apiregistration.k8s.io/v1beta1" :> PyStr("apiregistration.k8s.io/v1"))

\* get_line, shield.py 58-72 and healer.py 55-65.  A mapping loaded by the
\* round-trip loader carries its position under "lc": [line, data], data
\* mapping a key to the 0-based line it stands on; a plain dict (the safe
\* loader, a test's literal) carries none and the line is 1.
get_line(obj, key) ==
    IF obj = None THEN 1
    ELSE IF key # "" /\ "lc" \in DOMAIN obj /\ key \in DOMAIN obj.lc.data
           THEN obj.lc.data[key] + 1
    ELSE IF "lc" \in DOMAIN obj THEN obj.lc.line + 1
    ELSE 1

\* doc.get('metadata', {}).get('name', default)
MetaName(d, default) == Get(Get(d, "metadata", EmptyDict), "name", default)

\* doc.get('metadata', {}).get('namespace', 'default')
MetaNamespace(d) == Get(Get(d, "metadata", EmptyDict), "namespace", "default")

\* Replacement with the document's kind ignored.
Replacement_ignoring_kind(api, kind) ==
    LET mapping == DEPRECATIONS[api]
    IN  IF IsStr(mapping) THEN mapping.str ELSE Get(mapping, "default", "")

\* The replacement the table gives, shield.py 201-202 and healer.py 214-215:
\* mapping.get(kind, mapping.get("default")) if isinstance(mapping, dict)
\* else mapping.
Replacement(api, kind) ==
    LET mapping == DEPRECATIONS[api]
    IN  IF IsStr(mapping) THEN mapping.str
        ELSE Get(mapping, kind, Get(mapping, "default", ""))

\* The pod spec check_version_and_security walks to, shield.py 212-214:
\*   spec = doc.get('spec') or {}
\*   template = spec.get('template') or {} if kind != 'Pod' else doc
\*   t_spec = template.get('spec') or {}
ShieldPodSpec(d, kind) ==
    LET spec == Get(d, "spec", EmptyDict)
        template == IF kind # "Pod" THEN Get(spec, "template", EmptyDict) ELSE d
    IN  Get(template, "spec", EmptyDict)

\* PrivilegedOf reading the flag off the container itself.
PrivilegedOf_off_container(c) == Get(c, "privileged", None)

\* c.get('securityContext', {}).get('privileged'), None when absent
PrivilegedOf(c) == Get(Get(c, "securityContext", EmptyDict), "privileged", None)

\* check_version_and_security, shield.py 192-235.
check_version_and_security(d) ==
    LET api == Get(d, "apiVersion", "")
        kind == Get(d, "kind", "Object")
        name == MetaName(d, "unknown")
        deprecated ==
            IF api \in DOMAIN DEPRECATIONS
              THEN << add_finding("API_DEPRECATED", MEDIUM,
                          [kind |-> kind, name |-> name, api |-> api,
                           better |-> Replacement(api, kind)],
                          get_line(d, "apiVersion")) >>
              ELSE <<>>
        t_spec == ShieldPodSpec(d, kind)
        token ==
            IF Get(t_spec, "automountServiceAccountToken", None) # PyBool(FALSE)
              THEN << add_finding("SEC_TOKEN_AUDIT", LOW, <<>>,
                          IF "automountServiceAccountToken" \in DOMAIN t_spec
                            THEN get_line(t_spec, "automountServiceAccountToken")
                            ELSE get_line(d, "")) >>
              ELSE <<>>
        containers == Get(t_spec, "containers", <<>>)
        privileged(c) ==
            IF Truthy(PrivilegedOf(c))
              THEN << add_finding("SEC_PRIVILEGED", HIGH,
                          [container |-> Get(c, "name", ""), kind |-> kind, name |-> name],
                          get_line(c, "")) >>
              ELSE <<>>
    IN  IF kind \in {"Deployment", "Pod", "StatefulSet", "DaemonSet"}
          THEN IF \E i \in 1..Len(containers) :
                      Get(containers[i], "securityContext", EmptyDict) = None
                 THEN Raise    \* None.get: AttributeError
                 ELSE Return(deprecated \o token \o Flatten(Map(containers, privileged)))
          ELSE Return(deprecated)

\* check_rbac_security, shield.py 237-262.
\*   rules = resource.get("rules") or resource.get("spec", {}).get("rules", [])
check_rbac_security(resource) ==
    LET kind == Get(resource, "kind", "")
        name == MetaName(resource, "unknown")
        top == Get(resource, "rules", <<>>)
        rules == IF top # <<>> THEN top
                 ELSE Get(Get(resource, "spec", EmptyDict), "rules", <<>>)
        check(rule) ==
            LET verbs == Get(rule, "verbs", <<>>)
                res_list == Get(rule, "resources", <<>>)
            IN  IF "*" \in Range(verbs) /\ "*" \in Range(res_list)
                  THEN << add_finding("RBAC_WILD", HIGH,
                              [kind |-> kind, name |-> name], get_line(rule, "")) >>
                ELSE IF /\ "secrets" \in Range(res_list)
                        /\ \E v \in {"*", "get", "list", "watch"} : v \in Range(verbs)
                  THEN << add_finding("RBAC_SECRET", MEDIUM,
                              [kind |-> kind, name |-> name], get_line(rule, "")) >>
                ELSE <<>>
    IN  IF kind \in {"Role", "ClusterRole"}
          THEN Return(Flatten(Map(rules, check)))
          ELSE Return(<<>>)

\* check_limits, shield.py 113-130.
\*   spec = doc.get('spec', {}) or {}
\*   t_spec = spec.get('template', {}).get('spec', {}) or {}
\*   res = c.get('resources', {}) or {}
check_limits(d) ==
    LET spec == Get(d, "spec", EmptyDict)
        t_spec == Get(Get(spec, "template", EmptyDict), "spec", EmptyDict)
        containers == Get(t_spec, "containers", <<>>)
        check(c) ==
            LET r == Get(c, "resources", EmptyDict)
                res == IF r = None THEN EmptyDict ELSE r
            IN  IF "limits" \notin DOMAIN res
                  THEN << add_finding("OOM_RISK", CRITICAL,
                              [container |-> Get(c, "name", "")], get_line(c, "")) >>
                  ELSE <<>>
    IN  IF Get(d, "kind", "") \in {"Deployment", "StatefulSet", "DaemonSet", "Job"}
          THEN Return(Flatten(Map(containers, check)))
          ELSE Return(<<>>)

\* The resource metrics an autoscaler scales on, shield.py 273-277, in the
\* order the code collects them.
HpaMetrics(spec) ==
    LET ms == Get(spec, "metrics", <<>>)
        one(m) == IF Get(m, "type", "") = "Resource" THEN << m.resource.name >> ELSE <<>>
    IN  (IF Get(spec, "targetCPUUtilizationPercentage", 0) # 0 THEN << "cpu" >> ELSE <<>>)
            \o Flatten(Map(ms, one))

\* The target of an autoscaler, shield.py 279-280: the index in all_docs of
\* the first Deployment or StatefulSet with the target's name, or 0.
HpaTarget(t_name, docs) ==
    LET isTarget(d) == /\ MetaName(d, "") = t_name
                       /\ Get(d, "kind", "") \in {"Deployment", "StatefulSet"}
    IN  FirstIndex(docs, isTarget)

\* RequestsOf reading the limits in place of the requests.
RequestsOf_reading_limits(c) == Get(Get(c, "resources", EmptyDict), "limits", EmptyDict)

\* c.get('resources', {}).get('requests', {})
RequestsOf(c) == Get(Get(c, "resources", EmptyDict), "requests", EmptyDict)

\* audit_hpa, shield.py 264-303.  `for metric in set(metrics)` walks the
\* distinct metrics in an order Python does not fix; the model walks them in
\* the order of their first occurrence.
audit_hpa(hpa_doc, docs) ==
    LET spec == Get(hpa_doc, "spec", EmptyDict)
        t_name == Get(Get(spec, "scaleTargetRef", EmptyDict), "name", "")
        metrics == Dedup(HpaMetrics(spec))
        w == HpaTarget(t_name, docs)
        containers ==
            Get(Get(Get(Get(docs[w], "spec", EmptyDict), "template", EmptyDict),
                    "spec", EmptyDict), "containers", <<>>)
        check(metric) ==
            LET one(c) ==
                    IF metric \notin DOMAIN RequestsOf(c)
                      THEN << add_finding("HPA_MISSING_REQ", HIGH,
                                  [metric |-> metric, container |-> Get(c, "name", "")],
                                  get_line(c, "")) >>
                      ELSE <<>>
            IN  Flatten(Map(containers, one))
    IN  IF Get(hpa_doc, "kind", "") # "HorizontalPodAutoscaler" THEN Return(<<>>)
        ELSE IF w = 0
          THEN Return(<< add_finding("HPA_ORPHAN", MEDIUM, [target |-> t_name],
                             get_line(hpa_doc, "")) >>)
        ELSE IF /\ metrics # <<>>
                /\ \E i \in 1..Len(containers) :
                      \/ Get(containers[i], "resources", EmptyDict) = None
                      \/ RequestsOf(containers[i]) = None
          THEN Raise    \* None.get: AttributeError; metric in None: TypeError
        ELSE Return(Flatten(Map(metrics, check)))

\* The port an Ingress backend declares, as the code reads it,
\* shield.py 149-150:
\*   port_node = svc_node.get('port', {})
\*   target_port = port_node.get('number') if isinstance(port_node, dict) else port_node
TargetPort(svc_node) ==
    LET port_node == Get(svc_node, "port", EmptyDict)
    IN  IF IsDict(port_node)
          THEN IF "number" \in DOMAIN port_node THEN PyInt(port_node.number) ELSE None
          ELSE port_node

\* The backends of an Ingress in the order the loops of shield.py 142-145
\* reach them.
IngressBackends(spec) ==
    LET ofPath(path) == << Get(path, "backend", EmptyDict) >>
        ofRule(rule) ==
            Flatten(Map(Get(Get(rule, "http", EmptyDict), "paths", <<>>), ofPath))
    IN  Flatten(Map(Get(spec, "rules", <<>>), ofRule))

\* svc_node.get('name') or backend.get('serviceName'), shield.py 146-147
BackendService(backend) ==
    LET svc_node == Get(backend, "service", backend)
        name == Get(svc_node, "name", "")
    IN  IF name # "" THEN name ELSE Get(backend, "serviceName", "")

\* The Service a backend resolves to, shield.py 155-157: the index in
\* all_docs of the first Service of that name in the namespace, or 0.
MatchedService(target_svc, ns, docs) ==
    LET isSvc(d) == /\ Get(d, "kind", "") = "Service"
                    /\ MetaName(d, "") = target_svc
                    /\ MetaNamespace(d) = ns
    IN  FirstIndex(docs, isSvc)

\* svc_port_numbers and svc_port_names, shield.py 160-162
SvcPortNumbers(svc) ==
    LET one(p) == IF Get(p, "port", 0) # 0 THEN << p.port >> ELSE <<>>
    IN  Flatten(Map(Get(Get(svc, "spec", EmptyDict), "ports", <<>>), one))

SvcPortNames(svc) ==
    LET one(p) == IF Get(p, "name", "") # "" THEN << p.name >> ELSE <<>>
    IN  Flatten(Map(Get(Get(svc, "spec", EmptyDict), "ports", <<>>), one))

\* is_match, shield.py 164-170
PortIsMatch(target_port, svc) ==
    IF target_port = None THEN FALSE
    ELSE IF IsInt(target_port) THEN target_port.int \in Range(SvcPortNumbers(svc))
    ELSE IF IsStr(target_port) THEN target_port.str \in Range(SvcPortNames(svc))
    ELSE FALSE

\* check_ingress_service_alignment, shield.py 132-190.
check_ingress_service_alignment(d, docs) ==
    LET ingress_name == MetaName(d, "unknown")
        ingress_ns == MetaNamespace(d)
        check(backend) ==
            LET svc_node == Get(backend, "service", backend)
                target_svc == BackendService(backend)
                target_port == TargetPort(svc_node)
                m == MatchedService(target_svc, ingress_ns, docs)
            IN  IF target_svc = "" THEN <<>>
                ELSE IF m # 0
                  THEN IF Truthy(target_port) /\ ~PortIsMatch(target_port, docs[m])
                         THEN << add_finding("INGRESS_PORT_MISMATCH", CRITICAL,
                                     [ingress |-> ingress_name, port |-> target_port,
                                      service |-> target_svc],
                                     get_line(d, "")) >>
                         ELSE <<>>
                ELSE IF Len(docs) > 1
                  THEN << add_finding("INGRESS_ORPHAN", MEDIUM,
                              [ingress |-> ingress_name, service |-> target_svc],
                              get_line(d, "")) >>
                ELSE <<>>
    IN  IF Get(d, "kind", "") # "Ingress" THEN Return(<<>>)
        ELSE Return(Flatten(Map(IngressBackends(Get(d, "spec", EmptyDict)), check)))

\* Two calls one after the other: a raise of the first ends both.
Then(a, b) == IF a.raised \/ b.raised THEN Raise ELSE Return(a.findings \o b.findings)

\* Shield.scan, shield.py 74-111.  No call of a check is wrapped in a try:
\* a check that raises ends scan.  A finding whose line is not positive gets
\* the line of the document.
scan(d, docs) ==
    LET base_line == get_line(d, "")
        cross == IF docs # <<>>
                   THEN Then(audit_hpa(d, docs), check_ingress_service_alignment(d, docs))
                   ELSE Return(<<>>)
        raw == Then(Then(Then(check_version_and_security(d), check_rbac_security(d)),
                         check_limits(d)), cross)
        fix(f) == IF f.line <= 0 THEN [f EXCEPT !.line = base_line] ELSE f
    IN  IF d = EmptyDict THEN Return(<<>>)
        ELSE IF raw.raised THEN Raise
        ELSE Return(Map(raw.findings, fix))

(***************************************************************************)
(* ---------------------------------------------------------------------- *)
(* Synapse (synapse.py).                                                   *)
(***************************************************************************)
\* The severity strings of synapse.py 122-187.  The bytes of the file are
\* the emoji encoded twice, so that neither string is a Shield severity.
SYNAPSE_HIGH == "(red, encoded twice) HIGH"

SYNAPSE_MED == "(orange, encoded twice) MED"

\* AuditIssue, models.py 4-25, taken as the record of the arguments synapse.py
\* constructs it with (source.capitalize() and severity.strip() leave them as
\* they are); line is None for every issue of Synapse and fix is fixed by the
\* code.  message holds the values the f-string interpolates.
AuditIssue(code, severity, file, message, source) ==
    [code |-> code, severity |-> severity, file |-> file,
     message |-> message, source |-> source]

\* Synapse.__init__, synapse.py 15-25.
SynapseInit ==
    [all_docs |-> <<>>, producers |-> <<>>, workload_docs |-> <<>>,
     consumers |-> <<>>, ingresses |-> <<>>, configs |-> <<>>,
     hpas |-> <<>>, netpols |-> <<>>]

\* container_ports of a workload, synapse.py 62-66: for every declared port
\* its containerPort, then its name.
ContainerPorts(containers) ==
    LET ofPort(p) ==
            (IF Get(p, "containerPort", 0) # 0 THEN << PyInt(p.containerPort) >> ELSE <<>>)
            \o (IF Get(p, "name", "") # "" THEN << PyStr(p.name) >> ELSE <<>>)
        ofContainer(c) == Flatten(Map(Get(c, "ports", <<>>), ofPort))
    IN  Flatten(Map(containers, ofContainer))

\* probes of a workload, synapse.py 68-72.
Probes(containers) ==
    LET ofType(c, p_type) ==
            LET p_data == Get(c, p_type, EmptyDict)
            IN  IF p_data # EmptyDict /\ "httpGet" \in DOMAIN p_data
                  THEN << [type |-> p_type, port |-> Get(p_data.httpGet, "port", None)] >>
                  ELSE <<>>
        ofContainer(c) == ofType(c, "livenessProbe") \o ofType(c, "readinessProbe")
                              \o ofType(c, "startupProbe")
    IN  Flatten(Map(containers, ofContainer))

\* The entry of self.producers for a workload document, synapse.py 51-78.
Producer(d, kind, name, ns, spec, fname) ==
    LET template == IF kind # "Pod" THEN Get(spec, "template", EmptyDict) ELSE d
        labels == Get(Get(template, "metadata", EmptyDict), "labels", EmptyDict)
        pod_spec == IF kind # "Pod" THEN Get(template, "spec", EmptyDict) ELSE spec
        containers == Get(pod_spec, "containers", <<>>)
    IN  [name |-> name, kind |-> kind, labels |-> labels, namespace |-> ns,
         ports |-> ContainerPorts(containers), probes |-> Probes(containers),
         file |-> fname, serviceName |-> Get(spec, "serviceName", ""),
         volumes |-> Get(pod_spec, "volumes", <<>>)]

\* The body of the loop of scan_file for one document, synapse.py 38-97:
\* [raised, s], s the lists after it.  A document whose metadata is null is
\* appended to all_docs (line 42) before line 45 raises AttributeError.
ScanDoc(s, fname, d0) ==
    IF d0 = None \/ d0 = EmptyDict \/ "kind" \notin DOMAIN d0
      THEN [raised |-> FALSE, s |-> s]
    ELSE
      LET d == ("_origin_file" :> fname) @@ d0
          s1 == [s EXCEPT !.all_docs = Append(@, d)]
          kind == d.kind
          meta == Get(d, "metadata", EmptyDict)
          name == Get(meta, "name", "unknown")
          ns == Get(meta, "namespace", "default")
          spec0 == Get(d, "spec", EmptyDict)
          spec == IF spec0 = None THEN EmptyDict ELSE spec0
          s2 ==
            IF kind \in {"Deployment", "Pod", "StatefulSet", "DaemonSet"}
              THEN [s1 EXCEPT !.workload_docs = Append(@, d),
                              !.producers = Append(@, Producer(d, kind, name, ns, spec, fname))]
            ELSE IF kind = "Service"
              THEN [s1 EXCEPT !.consumers = Append(@,
                        [name |-> name, namespace |-> ns, file |-> fname,
                         selector |-> Get(spec, "selector", EmptyDict),
                         ports |-> Get(spec, "ports", <<>>),
                         clusterIP |-> Get(spec, "clusterIP", "")])]
            ELSE IF kind = "Ingress"
              THEN [s1 EXCEPT !.ingresses = Append(@,
                        [name |-> name, namespace |-> ns, file |-> fname, spec |-> spec])]
            ELSE IF kind = "HorizontalPodAutoscaler"
              THEN [s1 EXCEPT !.hpas = Append(@, [name |-> name, file |-> fname, doc |-> d])]
            ELSE IF kind \in {"ConfigMap", "Secret"}
              THEN [s1 EXCEPT !.configs = Append(@,
                        [name |-> name, kind |-> kind, namespace |-> ns, file |-> fname])]
            ELSE IF kind = "NetworkPolicy"
              THEN [s1 EXCEPT !.netpols = Append(@,
                        [name |-> name, file |-> fname,
                         selector |-> Get(spec, "podSelector", EmptyDict)])]
            ELSE s1
      IN  IF meta = None THEN [raised |-> TRUE, s |-> s1]
          ELSE [raised |-> FALSE, s |-> s2]

RECURSIVE ScanDocs(_, _, _)
\* The loop of scan_file, synapse.py 37-101: a raise leaves the loop, and
\* `except Exception: pass` ends the call with what was ingested before it.
ScanDocs(s, fname, docs) ==
    IF docs = <<>> THEN s
    ELSE LET r == ScanDoc(s, fname, Head(docs))
         IN  IF r.raised THEN r.s ELSE ScanDocs(r.s, fname, Tail(docs))

\* Synapse.scan_file, synapse.py 27-101.  file.docs is what load_all yields;
\* an empty file and a file that does not parse ingest nothing.
Synapse_scan_file(s, file) == ScanDocs(s, file.name, file.docs)

\* ItemsLe comparing the keys alone.
ItemsLe_keys_only(a, b) == DOMAIN a \subseteq DOMAIN b

\* a.items() <= b.items() of two dicts, synapse.py 116
ItemsLe(a, b) == \A k \in DOMAIN a : k \in DOMAIN b /\ b[k] = a[k]

\* The test of the list comprehension of synapse.py 113-117.
GhostMatch(svc, p) ==
    p.namespace = svc.namespace /\ ItemsLe(svc.selector, p.labels)

\* Synapse.audit, synapse.py 103-194.
Synapse_audit(s) ==
    LET ghost(svc) ==
            IF svc.selector = EmptyDict THEN <<>>
            ELSE IF \E i \in 1..Len(s.producers) : GhostMatch(svc, s.producers[i])
              THEN <<>>
            ELSE << AuditIssue("GHOST", SYNAPSE_HIGH, svc.file,
                               [service |-> svc.name], "Synapse") >>
        orphan(ing) ==
            LET ofPath(path) ==
                    LET backend == Get(path, "backend", EmptyDict)
                        legacy == Get(backend, "serviceName", "")
                        svc_name == IF legacy # "" THEN legacy
                                    ELSE Get(Get(backend, "service", EmptyDict), "name", "")
                        isMatch(c) == c.name = svc_name /\ c.namespace = ing.namespace
                    IN  IF svc_name # "" /\ FirstIndex(s.consumers, isMatch) = 0
                          THEN << AuditIssue("INGRESS_ORPHAN", SYNAPSE_HIGH, ing.file,
                                             [service |-> svc_name], "Synapse") >>
                          ELSE <<>>
                ofRule(rule) ==
                    Flatten(Map(Get(Get(rule, "http", EmptyDict), "paths", <<>>), ofPath))
            IN  Flatten(Map(Get(ing.spec, "rules", <<>>), ofRule))
        volume(p) ==
            LET ofVol(vol) ==
                    LET cm == IF "configMap" \in DOMAIN vol
                                THEN Get(vol.configMap, "name", "") ELSE ""
                        ref_name == IF "secret" \in DOMAIN vol
                                      THEN Get(vol.secret, "secretName", "") ELSE cm
                    IN  IF /\ ref_name # ""
                           /\ ~\E i \in 1..Len(s.configs) :
                                  /\ s.configs[i].name = ref_name
                                  /\ s.configs[i].namespace = p.namespace
                          THEN << AuditIssue("VOL_MISSING", SYNAPSE_MED, p.file,
                                             [workload |-> p.name, ref |-> ref_name],
                                             "Synapse") >>
                          ELSE <<>>
            IN  Flatten(Map(p.volumes, ofVol))
        hpaOut(hpa) == audit_hpa(hpa.doc, s.workload_docs)
        logic(hpa) ==
            LET wrap(err) == AuditIssue("HPA_LOGIC", SYNAPSE_HIGH, hpa.file, err, "Shield")
            IN  Map(hpaOut(hpa).findings, wrap)
        gap(p) ==
            LET ofProbe(probe) ==
                    IF Truthy(probe.port) /\ probe.port \notin Range(p.ports)
                      THEN << AuditIssue("PROBE_GAP", SYNAPSE_MED, p.file,
                                         [port |-> probe.port], "Synapse") >>
                      ELSE <<>>
            IN  Flatten(Map(p.probes, ofProbe))
    IN  IF \E i \in 1..Len(s.hpas) : hpaOut(s.hpas[i]).raised THEN Raise
        ELSE Return(Flatten(Map(s.consumers, ghost))
                    \o Flatten(Map(s.ingresses, orphan))
                    \o Flatten(Map(s.producers, volume))
                    \o Flatten(Map(s.hpas, logic))
                    \o Flatten(Map(s.producers, gap)))

\* No Synapse at work.
SynIdle ==
    /\ corpus = <<>>
    /\ synapse = SynapseInit
    /\ synFile = 0
    /\ results = Return(<<>>)
    /\ synpc = "idle"

(***************************************************************************)
(* ---------------------------------------------------------------------- *)
(* Baseline suppression (main.py).  An issue is a record with the fields   *)
(* file, code and line of an AuditIssue.                                   *)
(***************************************************************************)
\* Fingerprint sensitive to the line as well.
Fingerprint_with_line(issue) ==
    issue.file \o ":" \o issue.code \o ":" \o ToString(issue.line)

\* fp = f"{issue.file}:{issue.code}", main.py 713 and 271
Fingerprint(issue) == issue.file \o ":" \o issue.code

\* KubecuroCLI._save_baseline, main.py 269-279: the set of fingerprints
\* written under "issues" (which _load_baseline, main.py 257-266, reads back).
_save_baseline(saved) == {Fingerprint(saved[i]) : i \in 1..Len(saved)}

RECURSIVE FilterLoop(_, _, _, _)
\* The loop of _filter_baseline, main.py 712-717; acc holds reporting and
\* suppressed.
FilterLoop(rest, base, all, acc) ==
    IF rest = <<>> THEN acc
    ELSE LET issue == Head(rest)
             fp == Fingerprint(issue)
             next ==
                 IF fp \in base /\ ~all
                   THEN [acc EXCEPT !.suppressed =
                            (issue.code :> (Get(acc.suppressed, issue.code, 0) + 1)) @@ @]
                   ELSE [acc EXCEPT !.reporting = Append(@, issue)]
         IN  FilterLoop(Tail(rest), base, all, next)

\* AuditEngineV2._filter_baseline, main.py 709-721.
_filter_baseline(given, base, all) ==
    FilterLoop(given, base, all, [reporting |-> <<>>, suppressed |-> EmptyDict])

BaseIdle ==
    /\ issues = <<>>
    /\ baseline = {}
    /\ show_all = FALSE
    /\ reporting = <<>>
    /\ suppressed = EmptyDict
    /\ fbpc = "idle"

(***************************************************************************)
(* ---------------------------------------------------------------------- *)
(* Healer (healer.py).                                                     *)
(***************************************************************************)
\* ---- strings ----
UpperCase ==
    << "A", "B", "C", "D", "E", "F", "G", "H", "I", "J", "K", "L", "M",
       "N", "O", "P", "Q", "R", "S", "T", "U", "V", "W", "X", "Y", "Z" >>

LowerCase ==
    << "a", "b", "c", "d", "e", "f", "g", "h", "i", "j", "k", "l", "m",
       "n", "o", "p", "q", "r", "s", "t", "u", "v", "w", "x", "y", "z" >>

DigitChars == << "0", "1", "2", "3", "4", "5", "6", "7", "8", "9" >>

LowerChar(c) ==
    IF c \in Range(UpperCase)
      THEN LowerCase[CHOOSE i \in DOMAIN UpperCase : UpperCase[i] = c]
      ELSE c

RECURSIVE Lower(_)
\* s.lower()
Lower(s) == IF s = "" THEN "" ELSE LowerChar(SubSeq(s, 1, 1)) \o Lower(SubSeq(s, 2, Len(s)))

RECURSIVE Join(_)
\* " ".join(words)
Join(words) ==
    IF words = <<>> THEN ""
    ELSE IF Len(words) = 1 THEN words[1]
    ELSE words[1] \o " " \o Join(Tail(words))

IsDigits(s) == s # "" /\ \A i \in 1..Len(s) : SubSeq(s, i, i) \in Range(DigitChars)

DigitValue(c) == (CHOOSE i \in DOMAIN DigitChars : DigitChars[i] = c) - 1

RECURSIVE ParseInt(_)
\* int(s) of a string of digits
ParseInt(s) ==
    IF s = "" THEN 0
    ELSE ParseInt(SubSeq(s, 1, Len(s) - 1)) * 10 + DigitValue(SubSeq(s, Len(s), Len(s)))

\* The length of the longest prefix of s that p holds of every character of.
PrefixLen(s, p(_)) ==
    CHOOSE n \in 0..Len(s) :
        /\ \A i \in 1..n : p(SubSeq(s, i, i))
        /\ n < Len(s) => ~p(SubSeq(s, n + 1, n + 1))

\* What a conversion produced: a number, or ValueError.
Value(n) == [raised |-> FALSE, value |-> n]

ValueError == [raised |-> TRUE, value |-> 0]

\* s is digits, or digits "." digits: the decimal numbers among the strings
\* float() accepts.
IsDecimal(s) ==
    LET isDigit(c) == c \in Range(DigitChars)
        n == PrefixLen(s, isDigit)
    IN  /\ n > 0
        /\ \/ n = Len(s)
           \/ /\ SubSeq(s, n + 1, n + 1) = "."
              /\ IsDigits(SubSeq(s, n + 2, Len(s)))

\* int(float(s) * 1000) of a decimal number: s * 1000 cut to an integer.
\* The float product is the exact one for every number of at most three
\* decimals up to one core; the model holds no number where it is not.
Thousandths(s) ==
    LET isDigit(c) == c \in Range(DigitChars)
        n == PrefixLen(s, isDigit)
        frac == SubSeq(SubSeq(s, n + 2, Len(s)) \o "000", 1, 3)
    IN  ParseInt(SubSeq(s, 1, n)) * 1000 + ParseInt(frac)

\* Healer.parse_cpu, healer.py 33-42.  A quantity is held as the string
\* str() gives; no quantity of the model carries spaces around it.  int() of
\* the text before the 'm' stands outside the try: it raises unless the text
\* is digits.  A text float() does not accept gives 0.
parse_cpu(cpu_str) ==
    IF cpu_str = "" THEN Value(0)
    ELSE IF EndsWith(cpu_str, "m")
      THEN IF IsDigits(SubSeq(cpu_str, 1, Len(cpu_str) - 1))
             THEN Value(ParseInt(SubSeq(cpu_str, 1, Len(cpu_str) - 1)))
             ELSE ValueError
    ELSE IF IsDecimal(cpu_str) THEN Value(Thousandths(cpu_str))
    ELSE Value(0)

\* The units of parse_mem, healer.py 48-49, in KiB per unit; a unit the
\* table does not hold counts as MiB.
MemUnitKiB(unit) ==
    IF unit \in {"k", "ki"} THEN 1
    ELSE IF unit \in {"g", "gi"} THEN 1024 * 1024
    ELSE IF unit \in {"t", "ti"} THEN 1024 * 1024 * 1024
    ELSE 1024

\* Healer.parse_mem, healer.py 44-53: re.match(r'(\d+)([a-z]*)') of the
\* lowered text, then int(int(val) * units.get(unit, 1)), in MiB.
parse_mem(mem_str) ==
    LET low == Lower(mem_str)
        isDigit(c) == c \in Range(DigitChars)
        isLetter(c) == c \in Range(LowerCase)
        n == PrefixLen(low, isDigit)
        rest == SubSeq(low, n + 1, Len(low))
        unit == SubSeq(rest, 1, PrefixLen(rest, isLetter))
    IN  IF mem_str = "" \/ n = 0 THEN 0
        ELSE (ParseInt(SubSeq(low, 1, n)) * MemUnitKiB(unit)) \div 1024

\* Profile looking at the image before the command.
Profile_sidecar_first(c, idx) ==
    LET c_image == Lower(Get(c, "image", ""))
        exec_context == Lower(Join(Get(c, "command", <<>>)) \o " "
                              \o Join(Get(c, "args", <<>>)))
    IN  IF \E sig \in {"istio-proxy", "envoy", "fluentd", "sidecar", "otel-collector"} :
               Contains(sig, c_image)
          THEN [cpu |-> "100m", memory |-> "128Mi"]
        ELSE IF \E sig \in {"sleep ", "tail -f /dev/null", "pause", "infinity"} :
                    Contains(sig, exec_context)
          THEN [cpu |-> "10m", memory |-> "32Mi"]
        ELSE IF idx > 0 THEN [cpu |-> "200m", memory |-> "192Mi"]
        ELSE [cpu |-> "500m", memory |-> "256Mi"]

\* The profile of a container, healer.py 109-120; idx counts from 0.  command
\* and args are lists of strings.
Profile(c, idx) ==
    LET c_image == Lower(Get(c, "image", ""))
        c_cmd == Join(Get(c, "command", <<>>))
        c_args == Join(Get(c, "args", <<>>))
        exec_context == Lower(c_cmd \o " " \o c_args)
        is_dummy == \E sig \in {"sleep ", "tail -f /dev/null", "pause", "infinity"} :
                        Contains(sig, exec_context)
        is_sidecar == \E sig \in {"istio-proxy", "envoy", "fluentd", "sidecar",
                                  "otel-collector"} : Contains(sig, c_image)
    IN  IF is_dummy THEN [cpu |-> "10m", memory |-> "32Mi"]
        ELSE IF is_sidecar THEN [cpu |-> "100m", memory |-> "128Mi"]
        ELSE IF idx > 0 THEN [cpu |-> "200m", memory |-> "192Mi"]
        ELSE [cpu |-> "500m", memory |-> "256Mi"]

\* A code of self.detected_codes, the string f"{code}:{line}".
Code(code, line) == [code |-> code, line |-> line]

\* The body of the loop of apply_security_patches for one container,
\* healer.py 109-147: [raised, c, codes], c the container after it.
PatchContainer(c, idx, global_line_offset, apply_defaults) ==
    LET profile == Profile(c, idx)
        res == Get(c, "resources", EmptyDict)
        lacks == "limits" \notin DOMAIN res
        reqs == Get(res, "requests", EmptyDict)
        cpu == IF "cpu" \in DOMAIN reqs THEN parse_cpu(reqs.cpu) ELSE Value(0)
        final_cpu == IF "cpu" \in DOMAIN reqs /\ cpu.value > parse_cpu(profile.cpu).value
                       THEN reqs.cpu ELSE profile.cpu
        final_mem == IF /\ "memory" \in DOMAIN reqs
                        /\ parse_mem(reqs.memory) > parse_mem(profile.memory)
                       THEN reqs.memory ELSE profile.memory
        inject == lacks /\ apply_defaults
        c1 == IF inject
                THEN ("resources" :>
                        (("limits" :> [cpu |-> final_cpu, memory |-> final_mem]) @@ res))
                     @@ c
                ELSE c
        oom == IF lacks
                 THEN {Code(IF apply_defaults THEN "OOM_FIXED" ELSE "OOM_RISK",
                            global_line_offset + (get_line(c, "") - 1))}
                 ELSE {}
        s_ctx == Get(c, "securityContext", EmptyDict)
        priv == s_ctx # None /\ Get(s_ctx, "privileged", None) = PyBool(TRUE)
        c2 == IF priv /\ apply_defaults
                THEN [c1 EXCEPT !.securityContext.privileged = PyBool(FALSE)]
                ELSE c1
        sec == IF priv
                 THEN {Code(IF apply_defaults THEN "SEC_PRIVILEGED_FIXED"
                                              ELSE "SEC_PRIVILEGED_RISK",
                            global_line_offset + (get_line(c, "securityContext") - 1))}
                 ELSE {}
    IN  IF res = None THEN [raised |-> TRUE, c |-> c, codes |-> {}]  \* in None: TypeError
        ELSE IF inject /\ (reqs = None \/ cpu.raised)
          THEN [raised |-> TRUE, c |-> c, codes |-> {}]
        ELSE [raised |-> FALSE, c |-> c2, codes |-> oom \cup sec]

RECURSIVE PatchLoop(_, _, _, _, _)
\* The loop of healer.py 108-147 from the container at i on; acc holds the
\* containers patched so far and the codes added so far.  A raise leaves the
\* codes added before it in self.detected_codes.
PatchLoop(containers, i, global_line_offset, apply_defaults, acc) ==
    IF i > Len(containers) THEN acc
    ELSE LET r == PatchContainer(containers[i], i - 1, global_line_offset, apply_defaults)
         IN  IF r.raised THEN [acc EXCEPT !.raised = TRUE]
             ELSE PatchLoop(containers, i + 1, global_line_offset, apply_defaults,
                            [acc EXCEPT !.containers = Append(@, r.c),
                                        !.codes = @ \cup r.codes])

\* The pod spec apply_security_patches walks to, healer.py 87-95.
PatchPodSpec(spec, kind) ==
    IF kind = "CronJob"
      THEN Get(Get(Get(Get(spec, "jobTemplate", EmptyDict), "spec", EmptyDict),
                   "template", EmptyDict), "spec", EmptyDict)
    ELSE IF kind = "Pod" THEN spec
    ELSE Get(Get(spec, "template", EmptyDict), "spec", EmptyDict)

\* The document with the containers of its pod spec replaced.
WithContainers(d, kind, containers) ==
    IF kind = "CronJob"
      THEN [d EXCEPT !.spec.jobTemplate.spec.template.spec.containers = containers]
    ELSE IF kind = "Pod" THEN [d EXCEPT !.spec.containers = containers]
    ELSE [d EXCEPT !.spec.template.spec.containers = containers]

\* apply_security_patches turning the token mount off on a pod template.
apply_security_patches_closing_token(d, kind, global_line_offset, apply_defaults) ==
    [raised |-> FALSE,
     doc |-> IF kind = "Deployment"
               THEN [d EXCEPT !.spec.template.spec =
                        ("automountServiceAccountToken" :> PyBool(FALSE)) @@ @]
               ELSE d,
     codes |-> {}]

\* Healer.apply_security_patches, healer.py 67-147: [raised, doc, codes], doc
\* the document as the call left it and codes what it added to
\* self.detected_codes.
apply_security_patches(d, kind, global_line_offset, apply_defaults) ==
    LET same(codes) == [raised |-> FALSE, doc |-> d, codes |-> codes]
        spec == Get(d, "spec", EmptyDict)
        t_spec == PatchPodSpec(spec, kind)
        token == IF "automountServiceAccountToken" \notin DOMAIN t_spec
                   THEN {Code("SEC_TOKEN_AUDIT", global_line_offset + (get_line(t_spec, "") - 1))}
                   ELSE {}
        loop == PatchLoop(Get(t_spec, "containers", <<>>), 1, global_line_offset,
                          apply_defaults,
                          [raised |-> FALSE, containers |-> <<>>, codes |-> token])
    IN  IF d = None THEN same({})
        ELSE IF kind = "Service"
          THEN IF /\ (spec = None \/ spec = EmptyDict
                        \/ Get(spec, "selector", EmptyDict) \in {EmptyDict, None})
                  /\ ~apply_defaults
                 THEN same({Code("SVC_SELECTOR_MISSING",
                                 global_line_offset + (get_line(d, "spec") - 1))})
                 ELSE same({})
        ELSE IF kind \notin {"Deployment", "Pod", "StatefulSet", "DaemonSet", "Job", "CronJob"}
          THEN same({})
        ELSE IF spec = None \/ t_spec = None \/ t_spec = EmptyDict THEN same({})
        ELSE IF "containers" \notin DOMAIN t_spec THEN same(token)
        ELSE [raised |-> loop.raised,
              doc |-> WithContainers(d, kind,
                          loop.containers
                          \o SubSeq(t_spec.containers, Len(loop.containers) + 1,
                                    Len(t_spec.containers))),
              codes |-> loop.codes]

(***************************************************************************)
(* heal_file.  The text of a file is [lead, segs]: lead says that the text *)
(* starts with the separator "---", segs are the pieces between the        *)
(* separator lines.  A piece is [form, doc]:                               *)
(*   "blank"   white space only                                            *)
(*   "broken"  text the decoder rejects even after the textual repair      *)
(*   "tabs"    text indented with tabs, which decodes to doc once the tabs *)
(*             are expanded                                                *)
(*   "clean"   text as a user wrote it, which decodes to doc               *)
(*   "dumped"  text as yaml.dump writes doc                                *)
(* doc is None where the piece decodes to no mapping (a comment, a scalar, *)
(* a list).  yaml.dump of what yaml.load made of a dumped text is taken to *)
(* be that text; the dump of a clean text is a dumped text.  The model     *)
(* holds no lines of the text: current_line_offset is the ordinal of the   *)
(* piece, and the decoder's mark is not added to it.                       *)
(***************************************************************************)
\* RegexShield.sanitize: (text, codes).  It expands the tabs, and the other
\* transforms leave what the piece decodes to; it is taken to report no code.
sanitize(seg) ==
    [text |-> IF seg.form = "tabs" THEN [seg EXCEPT !.form = "clean"] ELSE seg,
     codes |-> {}]

\* d.replace('\t', '    ') and the re.sub of healer.py 193-194.
TextRepair(seg) == IF seg.form = "tabs" THEN [seg EXCEPT !.form = "clean"] ELSE seg

\* self.yaml.load(text): [raised, doc].
Load(seg) == [raised |-> seg.form \in {"broken", "tabs"}, doc |-> seg.doc]

\* doc_str.strip() is empty
IsBlank(seg) == seg.form = "blank"

\* s.startswith(prefix)
StartsWith(s, prefix) == Len(s) >= Len(prefix) /\ SubSeq(s, 1, Len(prefix)) = prefix

\* label_map[(kind, name)], a list of entries of which the last one of a key
\* counts: the labels, or the empty dict where the key is not held.
LabelsOf(label_map, kind, name) ==
    LET hits == {i \in 1..Len(label_map) :
                    label_map[i].kind = kind /\ label_map[i].name = name}
    IN  IF hits = {} THEN EmptyDict
        ELSE label_map[CHOOSE i \in hits : \A j \in hits : j <= i].labels

\* spec.template.metadata.labels read with .get on every level, healer.py 175
\* and 219.
TemplateLabels(d) ==
    Get(Get(Get(Get(d, "spec", EmptyDict), "template", EmptyDict),
            "metadata", EmptyDict), "labels", EmptyDict)

RECURSIVE Pass1(_, _)
\* PASS 1 of heal_file, healer.py 159-177: acc holds all_parsed_docs and
\* label_map.
Pass1(segs, acc) ==
    IF segs = <<>> THEN acc
    ELSE
      LET seg == Head(segs)
          loaded == Load(sanitize(seg).text)
          temp_parsed == loaded.doc
          kind == Get(temp_parsed, "kind", "")
          name == MetaName(temp_parsed, "")
          labels == IF kind = "Pod"
                      THEN Get(Get(temp_parsed, "metadata", EmptyDict), "labels", EmptyDict)
                    ELSE IF kind \in {"Deployment", "StatefulSet", "DaemonSet"}
                      THEN TemplateLabels(temp_parsed)
                    ELSE EmptyDict
          appended == [acc EXCEPT !.all_parsed_docs = Append(@, temp_parsed)]
          next ==
              IF IsBlank(seg) \/ loaded.raised \/ temp_parsed \in {None, EmptyDict}
                THEN acc
              ELSE IF Get(temp_parsed, "metadata", EmptyDict) = None
                THEN appended    \* None.get raises after the append
              ELSE IF kind # "" /\ name # "" /\ labels # EmptyDict
                THEN [appended EXCEPT !.label_map =
                          Append(@, [kind |-> kind, name |-> name, labels |-> labels])]
              ELSE appended
      IN  Pass1(Tail(segs), next)

\* InjectSelector without the matchLabels level.
InjectSelector_bare_labels(spec, labels) == ("selector" :> labels) @@ spec

\* parsed['spec']['selector'] = {'matchLabels': labels}, healer.py 221
InjectSelector(spec, labels) == ("selector" :> [matchLabels |-> labels]) @@ spec

\* The labels the Service healing finds, healer.py 226-230.
MatchingLabels(label_map, name) ==
    LET kinds == << "Deployment", "StatefulSet", "DaemonSet", "Pod" >>
        held(k) == LabelsOf(label_map, k, name) # EmptyDict
        first == FirstIndex(kinds, held)
    IN  IF first = 0 THEN EmptyDict ELSE LabelsOf(label_map, kinds[first], name)

\* The one element of a set of one element.  {F(x) : x \in {v}} computes v
\* once, however often F reads x.
The(S) == CHOOSE x \in S : TRUE

\* ApiFix writing whatever the table resolves to, the sentinel included.
ApiFix_applying_sentinel(parsed, offset, apply_fixes) ==
    LET api == Get(parsed, "apiVersion", "")
        new_api == Replacement(api, Get(parsed, "kind", ""))
    IN  [doc |-> IF api \in DOMAIN DEPRECATIONS /\ apply_fixes /\ new_api # ""
                   THEN [parsed EXCEPT !.apiVersion = new_api] ELSE parsed,
         codes |-> {}]

\* API & Selector Fixes, healer.py 211-222: [doc, codes].
ApiFix(parsed, offset, apply_fixes) ==
    LET kind == Get(parsed, "kind", "")
        api == Get(parsed, "apiVersion", "")
        new_api == Replacement(api, kind)
        fixApi == /\ api \in DOMAIN DEPRECATIONS
                  /\ apply_fixes
                  /\ new_api # ""
                  /\ ~StartsWith(new_api, "REMOVED")
        labels == TemplateLabels(parsed)
        inject == /\ fixApi
                  /\ new_api = "apps/v1"
                  /\ kind = "Deployment"
                  /\ "selector" \notin DOMAIN Get(parsed, "spec", EmptyDict)
                  /\ labels \notin {EmptyDict, None}
        fixed == IF fixApi THEN [parsed EXCEPT !.apiVersion = new_api] ELSE parsed
    IN  [doc |-> IF inject THEN [fixed EXCEPT !.spec = InjectSelector(@, labels)]
                 ELSE fixed,
         codes |-> IF inject THEN {Code("FIX_SELECTOR_INJECTED", offset)} ELSE {}]

\* Service Healing, healer.py 224-233: [raised, doc, codes].
ServiceHealing(parsed, label_map, offset, apply_fixes) ==
    LET spec == Get(parsed, "spec", EmptyDict)
        matching_labels == MatchingLabels(label_map, MetaName(parsed, ""))
        same == [raised |-> FALSE, doc |-> parsed, codes |-> {}]
    IN  IF ~(Get(parsed, "kind", "") = "Service" /\ apply_fixes) THEN same
        ELSE IF spec = None THEN [same EXCEPT !.raised = TRUE]  \* None.get
        ELSE IF Get(spec, "selector", EmptyDict) \notin {EmptyDict, None} THEN same
        ELSE IF matching_labels = EmptyDict THEN same
        ELSE IF "spec" \notin DOMAIN parsed
          THEN [same EXCEPT !.raised = TRUE]                    \* parsed['spec']
        ELSE [raised |-> FALSE,
              doc |-> [parsed EXCEPT !.spec = ("selector" :> matching_labels) @@ @],
              codes |-> {Code("SVC_SELECTOR_FIXED", offset)}]

\* What PASS 2 does with a piece that decodes to the mapping `parsed`,
\* healer.py 198-238 and 242-251: [part, codes], part what is appended to
\* healed_parts (the text d where a statement raises, the dump otherwise).
HealParsed(d, parsed, offset, all_parsed_docs, label_map, apply_fixes, apply_defaults) ==
    LET failed(codes) == [part |-> d, codes |-> codes \cup {Code("SYNTAX_ERROR", offset)}]
        lines(findings) ==
            {Code(f.code, IF f.line > 0 THEN offset + f.line - 1 ELSE offset)
                : f \in Range(findings.findings)}
    IN  IF Get(parsed, "metadata", EmptyDict) = None THEN failed({})
        ELSE The({
          IF findings.raised THEN failed({})
          ELSE The({
            IF healed.raised THEN failed(lines(findings) \cup fixed.codes)
            ELSE The({
              IF patched.raised
                THEN failed(lines(findings) \cup fixed.codes \cup healed.codes
                                \cup patched.codes)
              ELSE [part |-> [form |-> "dumped", doc |-> patched.doc],
                    codes |-> lines(findings) \cup fixed.codes \cup healed.codes
                                  \cup patched.codes]
              : patched \in {apply_security_patches(healed.doc, Get(parsed, "kind", ""),
                                                    offset, apply_defaults)} })
            : healed \in {ServiceHealing(fixed.doc, label_map, offset, apply_fixes)} })
          : findings \in {scan(parsed, all_parsed_docs)},
            fixed \in {ApiFix(parsed, offset, apply_fixes)} })

\* HealSeg appending doc_str, the text as it was given.
HealSeg_appending_doc_str(seg, offset, all_parsed_docs, label_map, apply_fixes, apply_defaults) ==
    [part |-> seg, codes |-> {}]

\* The body of the loop of PASS 2 for one piece that is not blank,
\* healer.py 186-251: [part, codes].
HealSeg(seg, offset, all_parsed_docs, label_map, apply_fixes, apply_defaults) ==
    LET clean == sanitize(seg)
        d == TextRepair(clean.text)
        shield_codes == {Code(c, offset) : c \in clean.codes}
    IN  The({
          IF loaded.raised
            THEN [part |-> d, codes |-> shield_codes \cup {Code("SYNTAX_ERROR", offset)}]
          ELSE IF loaded.doc \in {None, EmptyDict}
            THEN [part |-> d, codes |-> shield_codes]
          ELSE The({ [r EXCEPT !.codes = @ \cup shield_codes]
                     : r \in {HealParsed(d, loaded.doc, offset, all_parsed_docs,
                                         label_map, apply_fixes, apply_defaults)} })
          : loaded \in {Load(d)} })

RECURSIVE Pass2(_, _, _, _, _, _)
\* PASS 2 of heal_file, healer.py 179-253, from the piece at i on; acc holds
\* healed_parts and self.detected_codes.
Pass2(segs, i, pass1, apply_fixes, apply_defaults, acc) ==
    IF i > Len(segs) THEN acc
    ELSE IF IsBlank(segs[i])
      THEN Pass2(segs, i + 1, pass1, apply_fixes, apply_defaults, acc)
    ELSE The({ Pass2(segs, i + 1, pass1, apply_fixes, apply_defaults, next)
               : next \in {The({ [healed_parts |-> Append(acc.healed_parts, r.part),
                                  detected_codes |-> acc.detected_codes \cup r.codes]
                                 : r \in {HealSeg(segs[i], i, pass1.all_parsed_docs,
                                                  pass1.label_map, apply_fixes,
                                                  apply_defaults)} })} })

\* heal_file writing before it looks at return_content.
heal_file_writing_first(text, flags) ==
    The({ The({ [healed_final |-> [lead |-> text.lead, segs |-> pass2.healed_parts],
                 changed |-> text.segs # pass2.healed_parts,
                 codes |-> pass2.detected_codes,
                 written |-> text.segs # pass2.healed_parts /\ ~flags.dry_run]
                : pass2 \in {Pass2(text.segs, 1, pass1, flags.apply_fixes,
                                   flags.apply_defaults,
                                   [healed_parts |-> <<>>, detected_codes |-> {}])} })
          : pass1 \in {Pass1(text.segs, [all_parsed_docs |-> <<>>, label_map |-> <<>>])} })

\* Healer.heal_file on a file that exists, healer.py 149-270: the healed
\* text, `changed`, the codes, and whether the file is written.
heal_file(text, flags) ==
    The({ The({ [healed_final |-> [lead |-> text.lead, segs |-> pass2.healed_parts],
                 changed |-> text.segs # pass2.healed_parts,
                 codes |-> pass2.detected_codes,
                 written |-> /\ ~flags.return_content
                             /\ text.segs # pass2.healed_parts
                             /\ ~flags.dry_run]
                : pass2 \in {Pass2(text.segs, 1, pass1, flags.apply_fixes,
                                   flags.apply_defaults,
                                   [healed_parts |-> <<>>, detected_codes |-> {}])} })
          : pass1 \in {Pass1(text.segs, [all_parsed_docs |-> <<>>, label_map |-> <<>>])} })

HealIdle ==
    /\ content = [lead |-> FALSE, segs |-> <<>>]
    /\ healFlags = [apply_fixes |-> TRUE, apply_defaults |-> FALSE,
                    dry_run |-> FALSE, return_content |-> FALSE]
    /\ passes = <<>>
    /\ hDoc = EmptyDict
    /\ hOut = [raised |-> FALSE, doc |-> EmptyDict, codes |-> {}]
    /\ healpc = "idle"

AuditIdle ==
    /\ files = <<>>
    /\ auDefaults = FALSE
    /\ fileIdx = 0
    /\ syn = SynapseInit
    /\ seen = {}
    /\ crossLog = <<>>
    /\ aupc = "idle"

(***************************************************************************)
(* ---------------------------------------------------------------------- *)
(* AuditEngineV2.audit (main.py 547-690).                                  *)
(* A file is [path, name, full, unreadable, mark, text]: path is           *)
(* str(fpath), name its base name, full str(fpath.resolve()); unreadable   *)
(* says that read_text raises (the bytes are no UTF-8), mark is the        *)
(* 0-based line of problem_mark of the error the safe loader raises on a   *)
(* text it rejects, and text is the text as heal_file takes it.  The rt    *)
(* loader of the healer builds mappings that carry lc; the safe loader of  *)
(* the syntax phase and of Synapse builds plain dicts.  No code of Shield, *)
(* of the healer or of Synapse is in PRO_RULES, so the gate of lines 617,  *)
(* 641 and 684 never skips.                                                *)
(***************************************************************************)
\* A mapping as the safe loader builds it: a dict, which has no lc.
Unmarked(m) == [k \in DOMAIN m \ {"lc"} |-> m[k]]

\* What YAML(typ='safe') makes of the text the rt loader makes d of; the
\* mappings that carry lc in the model are the document, the pod spec of its
\* template and its containers.
SafeDoc(d) ==
    LET top == Unmarked(d)
        t_spec == Get(Get(Get(top, "spec", EmptyDict), "template", EmptyDict),
                      "spec", EmptyDict)
        plain == Unmarked(t_spec)
    IN  IF d = None THEN None
        ELSE IF t_spec \in {EmptyDict, None} THEN top
        ELSE [top EXCEPT !.spec.template.spec =
                 IF "containers" \in DOMAIN plain
                   THEN [plain EXCEPT !.containers = Map(@, Unmarked)]
                   ELSE plain]

\* list(yaml.load_all(content)) of the safe loader, main.py 583-586 and
\* synapse.py 32-35: [raised, marked, docs].  A blank piece and a comment
\* load as None.
SafeLoadAll(file) ==
    LET segs == file.text.segs
        ofSeg(seg) == IF IsBlank(seg) THEN None ELSE SafeDoc(seg.doc)
        rejected == \E i \in 1..Len(segs) : segs[i].form \in {"broken", "tabs"}
    IN  [raised |-> file.unreadable \/ rejected,
         marked |-> ~file.unreadable,
         docs |-> Map(segs, ofSeg)]

\* AuditIssue(code=, severity=, file=, message=, line=), models.py 4-25.
AuditIssueAt(code, severity, file, message, line) ==
    [code |-> code, severity |-> severity, file |-> file, message |-> message,
     line |-> line, source |-> "Unknown"]

\* f"{file}:{line}:{code}"; line is wrapped, for the None of a Synapse issue.
Ident(file, line, code) == [file |-> file, line |-> line, code |-> code]

\* if ident not in seen: issues.append(issue); seen.add(ident)
AuditAppend(acc, ident, issue) ==
    IF ident \in acc.seen THEN acc
    ELSE [acc EXCEPT !.issues = Append(@, issue), !.seen = @ \cup {ident}]

RECURSIVE AuditAppendAll(_, _)
\* AuditAppend for every [ident, issue] of cands in turn.
AuditAppendAll(acc, cands) ==
    IF cands = <<>> THEN acc
    ELSE AuditAppendAll(AuditAppend(acc, Head(cands).ident, Head(cands).issue),
                        Tail(cands))

\* PHASE 1 for a file the safe loader rejects, main.py 587-605.
SyntaxPhase(acc, file, loaded) ==
    LET line_num == (IF loaded.marked THEN file.mark ELSE 1) + 1
    IN  AuditAppend(acc, [file |-> file.full, code |-> "SYNTAX_ERROR"],
                    AuditIssueAt("SYNTAX_ERROR", "CRITICAL", file.full,
                                 "YAML syntax error", line_num))

RECURSIVE ShieldLoop(_, _, _, _)
\* for doc in docs: for finding in shield.scan(doc, syn.all_docs),
\* main.py 614-632.  A scan that raises leaves the try of PHASE 2.
ShieldLoop(acc, docs, all, full) ==
    LET cand(f) == [ident |-> Ident(full, PyInt(f.line), f.code),
                    issue |-> AuditIssueAt(f.code, f.severity, full, f.msg, f.line)]
    IN  IF docs = <<>> THEN acc
        ELSE The({ IF r.raised THEN [acc EXCEPT !.raised = TRUE]
                   ELSE ShieldLoop(AuditAppendAll(acc, Map(r.findings, cand)),
                                   Tail(docs), all, full)
                   : r \in {scan(Head(docs), all)} })

RECURSIVE SetToSeq(_)
\* list(codes) of a set: its elements in some order.
SetToSeq(S) ==
    IF S = {} THEN <<>>
    ELSE LET x == CHOOSE x \in S : TRUE IN << x >> \o SetToSeq(S \ {x})

\* "FIXED" in ccode, over the codes the healer adds.
IsFixedCode(ccode) == ccode \in {"OOM_FIXED", "SEC_PRIVILEGED_FIXED", "SVC_SELECTOR_FIXED"}

\* "OOM" in ccode, over the codes the healer adds.
IsOomCode(ccode) == ccode \in {"OOM_FIXED", "OOM_RISK"}

\* AuditEngineV2._silent_healer, main.py 465-488: the codes of linter_engine
\* (healer.py 272-273) on the file.
_silent_healer(file, defaults) ==
    heal_file(file.text, [apply_fixes |-> TRUE, apply_defaults |-> defaults,
                          dry_run |-> FALSE, return_content |-> TRUE]).codes

\* The loop over the codes of the healer, main.py 636-663.
HealerLoop(acc, codes, full) ==
    LET kept == SelectSeq(SetToSeq(codes), LAMBDA c : ~IsFixedCode(c.code))
        cand(c) ==
            [ident |-> Ident(full, PyInt(c.line), c.code),
             issue |-> AuditIssueAt(c.code, IF IsOomCode(c.code) THEN "HIGH" ELSE "MEDIUM",
                                    full, "Healer Recommendation", c.line)]
    IN  AuditAppendAll(acc, Map(kept, cand))

\* The files whose documents a corpus holds.
Origins(docs) == {docs[k]._origin_file : k \in 1..Len(docs)}

\* PHASE 2 for a file the safe loader accepts, main.py 607-680: acc after
\* it, with the Synapse lists and the runs of the cross-resource checks.
LogicPhase(acc, file, i, loaded, defaults) ==
    The({ The({ The({ The({
        [issues |-> IF shield.raised THEN shield.issues ELSE healer.issues,
         seen |-> IF shield.raised THEN shield.seen ELSE healer.seen,
         syn |-> syn1,
         log |-> (IF docs # <<>>
                    THEN << [by |-> "Shield.scan", at |-> i,
                             sees |-> Origins(syn1.all_docs)] >>
                    ELSE <<>>)
                 \o (IF ~shield.raised
                        /\ \E k \in 1..Len(file.text.segs) :
                              /\ ~Load(sanitize(file.text.segs[k]).text).raised
                              /\ Load(sanitize(file.text.segs[k]).text).doc
                                     \notin {None, EmptyDict}
                      THEN << [by |-> "Healer.heal_file", at |-> i,
                               sees |-> {file.name}] >>
                      ELSE <<>>)]
        : healer \in {IF shield.raised THEN shield
                      ELSE HealerLoop(shield, _silent_healer(file, defaults), file.full)} })
      : shield \in {ShieldLoop([issues |-> acc.issues, seen |-> acc.seen,
                                raised |-> FALSE],
                               docs, syn1.all_docs, file.full)} })
      : docs \in {SelectSeq(syn1.all_docs, LAMBDA d : d._origin_file = file.path)} })
    : syn1 \in {Synapse_scan_file(acc.syn, [name |-> file.name, docs |-> loaded.docs])} })

\* One turn of the loop over the files, main.py 574-680.
AuditFile(acc, file, i, defaults) ==
    The({ IF loaded.raised
            THEN [syn |-> acc.syn, log |-> <<>>] @@ SyntaxPhase(acc, file, loaded)
            ELSE LogicPhase(acc, file, i, loaded, defaults)
          : loaded \in {SafeLoadAll(file)} })

\* PHASE 4, main.py 682-690, on what syn.audit() returned.
GlobalSync(acc, found) ==
    LET cand(issue) == [ident |-> Ident(issue.file, None, issue.code), issue |-> issue]
    IN  AuditAppendAll(acc, Map(found, cand))

(***************************************************************************)
(* ---------------------------------------------------------------------- *)
(* The fix pipeline: AuditEngineV2.execute("fix"),                         *)
(* _execute_zero_downtime_fixes and _atomic_fix (main.py).                 *)
(*                                                                         *)
(* What a path holds:                                                      *)
(*   "missing"  the path does not exist                                    *)
(*   "orig"     the file's content before the fix                          *)
(*   "fixed"    the healed content, whole                                  *)
(*   "empty"    a zero-byte file (open(fpath, 'w') truncates)              *)
(*   "partial"  a proper prefix of the healed content                      *)
(*   "stale"    a backup left by an earlier run (a backup is never removed)*)
(***************************************************************************)
Contents == {"missing", "orig", "fixed", "empty", "partial", "stale"}

\* The fix pipeline leaves the other components alone.
NotFix == UNCHANGED <<shieldVars, synVars, baseVars, healVars, auditVars>>

FixIdle ==
    /\ disk = [f \in Files |-> [target |-> "orig", backup |-> "missing"]]
    /\ changed = [f \in Files |-> FALSE]
    /\ dry_run = FALSE
    /\ afpc = "idle"
    /\ afFile = 0
    /\ afRenamed = FALSE
    /\ afFail = "none"
    /\ afRet = [f \in Files |-> "none"]

\* The state before `kubecuro fix`: every discovered file exists; a backup
\* path may hold the backup an earlier run left behind.
FixInit ==
    /\ disk \in [Files -> {[target |-> "orig", backup |-> b] : b \in {"missing", "stale"}}]
    /\ changed \in [Files -> BOOLEAN]
    /\ dry_run \in BOOLEAN
    /\ afpc = "execute"
    /\ afFile = 0
    /\ afRenamed = FALSE
    /\ afFail = "none"
    /\ afRet = [f \in Files |-> "none"]

\* execute("fix"), main.py 534-545: a dry run renders the issue table and
\* never enters the fix loop.
execute ==
    /\ afpc = "execute"
    /\ afpc' = IF dry_run THEN "rendered" ELSE "loop"
    /\ afFile' = 1
    /\ UNCHANGED <<disk, changed, dry_run, afRenamed, afFail, afRet>>
    /\ NotFix

\* One pass of the loop of _execute_zero_downtime_fixes up to the call of
\* _atomic_fix (main.py 932-958); after the last file, the summary.
_execute_zero_downtime_fixes ==
    /\ afpc = "loop"
    /\ IF afFile > NumFiles
         THEN /\ afpc' = "summary"
              /\ UNCHANGED <<afFile, afRenamed, afFail>>
         ELSE IF changed[afFile]
               THEN /\ afpc' = "rename"
                    /\ afRenamed' = FALSE
                    /\ afFail' = "none"
                    /\ UNCHANGED afFile
               ELSE /\ afFile' = afFile + 1
                    /\ UNCHANGED <<afpc, afRenamed, afFail>>
    /\ UNCHANGED <<disk, changed, dry_run, afRet>>
    /\ NotFix

\* fpath.rename(backup), main.py 1015.  os.rename replaces an existing backup.
atomic_fix_rename ==
    /\ afpc = "rename"
    /\ \/ /\ disk' = [disk EXCEPT ![afFile] =
                        [target |-> "missing", backup |-> disk[afFile].target]]
          /\ afRenamed' = TRUE
          /\ afpc' = "open"
          /\ UNCHANGED afFail
       \/ /\ afFail' = "rename"
          /\ afpc' = "except"
          /\ UNCHANGED <<disk, afRenamed>>
    /\ UNCHANGED <<changed, dry_run, afFile, afRet>>
    /\ NotFix

\* open(fpath, 'w', encoding='utf-8'), main.py 1018: creates the file empty.
atomic_fix_open ==
    /\ afpc = "open"
    /\ \/ /\ disk' = [disk EXCEPT ![afFile].target = "empty"]
          /\ afpc' = "write"
          /\ UNCHANGED afFail
       \/ /\ afFail' = "open"
          /\ afpc' = "except"
          /\ UNCHANGED disk
    /\ UNCHANGED <<changed, dry_run, afFile, afRenamed, afRet>>
    /\ NotFix

\* f.write(fixed), main.py 1019.  The text goes to Python's buffer, which
\* spills to the file when it is full; a raise (an unencodable character, a
\* full disk on the spill) leaves what was spilled: nothing, or a prefix.
atomic_fix_write ==
    /\ afpc = "write"
    /\ \/ /\ \E c \in {"empty", "partial"} :
                disk' = [disk EXCEPT ![afFile].target = c]
          /\ afpc' = "flush"
          /\ UNCHANGED afFail
       \/ /\ \E c \in {"empty", "partial"} :
                disk' = [disk EXCEPT ![afFile].target = c]
          /\ afFail' = "write"
          /\ afpc' = "except"
    /\ UNCHANGED <<changed, dry_run, afFile, afRenamed, afRet>>
    /\ NotFix

\* f.flush(), main.py 1022.
atomic_fix_flush ==
    /\ afpc = "flush"
    /\ \/ /\ disk' = [disk EXCEPT ![afFile].target = "fixed"]
          /\ afpc' = "fsync"
          /\ UNCHANGED afFail
       \/ /\ \E c \in {"empty", "partial"} :
                disk' = [disk EXCEPT ![afFile].target = c]
          /\ afFail' = "flush"
          /\ afpc' = "except"
    /\ UNCHANGED <<changed, dry_run, afFile, afRenamed, afRet>>
    /\ NotFix

\* os.fsync(f.fileno()), main.py 1023.
atomic_fix_fsync ==
    /\ afpc = "fsync"
    /\ \/ /\ afpc' = "print"
          /\ UNCHANGED afFail
       \/ /\ afFail' = "fsync"
          /\ afpc' = "except"
    /\ UNCHANGED <<disk, changed, dry_run, afFile, afRenamed, afRet>>
    /\ NotFix

\* self.console.print("FIXED ..."), main.py 1025.  AuditEngineV2.__init__
\* (main.py 490-501) sets no attribute `console` (only KubecuroCLI does,
\* main.py 192), so the statement raises AttributeError inside the try and
\* `return True` (main.py 1026) is never reached.
atomic_fix_print ==
    /\ afpc = "print"
    /\ afFail' = "print"
    /\ afpc' = "except"
    /\ UNCHANGED <<disk, changed, dry_run, afFile, afRenamed, afRet>>
    /\ NotFix

\* The restore of the except block, main.py 1030-1031.
RestoreBackup(d) ==
    IF d.backup # "missing" /\ d.target = "missing"
      THEN [target |-> d.backup, backup |-> "missing"]
      ELSE d

\* The except block, main.py 1028-1034: the restore, then
\* self.console.print("Failed to fix ..."), which raises AttributeError as in
\* atomic_fix_print; the exception leaves _atomic_fix before `return False`
\* and, nothing catching it in _execute_zero_downtime_fixes or execute, ends
\* the fix run (main.py 1156-1158 prints it and exits 1).
atomic_fix_except ==
    /\ afpc = "except"
    /\ disk' = [disk EXCEPT ![afFile] = RestoreBackup(disk[afFile])]
    /\ afRet' = [afRet EXCEPT ![afFile] = "raised"]
    /\ afpc' = "aborted"
    /\ UNCHANGED <<changed, dry_run, afFile, afRenamed, afFail>>
    /\ NotFix

NextFix ==
    \/ execute
    \/ _execute_zero_downtime_fixes
    \/ atomic_fix_rename
    \/ atomic_fix_open
    \/ atomic_fix_write
    \/ atomic_fix_flush
    \/ atomic_fix_fsync
    \/ atomic_fix_print
    \/ atomic_fix_except

(***************************************************************************)
(* ---------------------------------------------------------------------- *)
(* One call of a Shield check: the inputs are drawn in the initial state,  *)
(* the action is the call.                                                 *)
(***************************************************************************)
NotShield == UNCHANGED <<fixVars, synVars, baseVars, healVars, auditVars>>

ShieldIdle ==
    /\ doc = EmptyDict
    /\ all_docs = <<>>
    /\ shpc = "idle"
    /\ shOut = Return(<<>>)

ShieldCall(name, out) ==
    /\ shpc = "call"
    /\ shpc' = name
    /\ shOut' = out
    /\ UNCHANGED <<doc, all_docs>>
    /\ NotShield

call_audit_hpa == ShieldCall("audit_hpa", audit_hpa(doc, all_docs))

call_check_ingress_service_alignment ==
    ShieldCall("check_ingress_service_alignment",
               check_ingress_service_alignment(doc, all_docs))

call_check_version_and_security ==
    ShieldCall("check_version_and_security", check_version_and_security(doc))

call_check_rbac_security ==
    ShieldCall("check_rbac_security", check_rbac_security(doc))

\* ---- the documents of the RBAC check ----
\* The most rules of a role.
MaxRules == 2

RbacRules ==
    { [apiGroups |-> << "*" >>, resources |-> << "*" >>, verbs |-> << "*" >>],
      [apiGroups |-> << "" >>, resources |-> << "pods", "*" >>, verbs |-> << "get", "*" >>],
      [apiGroups |-> << "" >>, resources |-> << "secrets" >>, verbs |-> << "get", "list" >>],
      [apiGroups |-> << "" >>, resources |-> << "pods" >>, verbs |-> << "*" >>],
      [apiGroups |-> << "" >>, resources |-> << "*" >>, verbs |-> << "get" >>],
      [apiGroups |-> << "" >>, resources |-> << "secrets", "*" >>, verbs |-> << "*" >>],
      [apiGroups |-> << "" >>, resources |-> << "secrets" >>, verbs |-> << "create" >>] }

RbacDocs ==
    {[kind |-> k, metadata |-> [name |-> "star-lord"], rules |-> rs]
        : k \in {"Role", "ClusterRole", "RoleBinding"},
          rs \in SeqsUpTo(RbacRules, MaxRules)}
    \cup
    {[kind |-> "Role", metadata |-> [name |-> "nested"], spec |-> [rules |-> rs]]
        : rs \in SeqsUpTo(RbacRules, MaxRules)}

InitRbac ==
    /\ FixIdle
    /\ SynIdle
    /\ BaseIdle
    /\ AuditIdle
    /\ HealIdle
    /\ doc \in RbacDocs
    /\ all_docs = <<>>
    /\ shpc = "call"
    /\ shOut = Return(<<>>)

SpecRbac == InitRbac /\ [][call_check_rbac_security]_vars

\* ---- the documents of the privileged-container check ----
PrivContainers ==
    { [name |-> "app", image |-> "nginx:1.25"],
      [name |-> "root", securityContext |-> [privileged |-> PyBool(TRUE)]],
      [name |-> "user", securityContext |-> [privileged |-> PyBool(FALSE)]],
      [name |-> "empty", securityContext |-> EmptyDict],
      [name |-> "uid", securityContext |-> [runAsUser |-> PyInt(1000)]],
      [name |-> "null", securityContext |-> None] }

PrivDocs ==
    {[kind |-> k, apiVersion |-> "apps/v1", metadata |-> [name |-> "web"],
      spec |-> [template |-> [spec |-> [containers |-> cs]]]]
        : k \in {"Deployment", "StatefulSet", "DaemonSet", "Job"},
          cs \in SeqsUpTo(PrivContainers, MaxContainers)}
    \cup
    {[kind |-> "Pod", apiVersion |-> "v1", metadata |-> [name |-> "web"],
      spec |-> [containers |-> cs]]
        : cs \in SeqsUpTo(PrivContainers, MaxContainers)}

InitPriv ==
    /\ FixIdle
    /\ SynIdle
    /\ BaseIdle
    /\ AuditIdle
    /\ HealIdle
    /\ doc \in PrivDocs
    /\ all_docs = <<>>
    /\ shpc = "call"
    /\ shOut = Return(<<>>)

SpecPriv == InitPriv /\ [][call_check_version_and_security]_vars

\* ---- Shield.scan on the documents of the privileged-container check, alone
\* ---- and with the document as the corpus ----
call_scan == ShieldCall("scan", scan(doc, all_docs))

InitScan ==
    /\ FixIdle
    /\ SynIdle
    /\ BaseIdle
    /\ AuditIdle
    /\ HealIdle
    /\ doc \in PrivDocs
    /\ all_docs \in {<<>>, << doc >>}
    /\ shpc = "call"
    /\ shOut = Return(<<>>)

SpecScan == InitScan /\ [][call_scan]_vars

\* ---- the documents of the autoscaler checks ----
CpuMetric == [type |-> "Resource", resource |-> [name |-> "cpu"]]

MemoryMetric == [type |-> "Resource", resource |-> [name |-> "memory"]]

PodsMetric == [type |-> "Pods", pods |-> [metric |-> [name |-> "rps"]]]

HpaDocs ==
    {[kind |-> "HorizontalPodAutoscaler",
      metadata |-> [name |-> "web-hpa"],
      spec |-> [scaleTargetRef |-> [name |-> "web"], metrics |-> ms]]
        : ms \in {<<>>, <<CpuMetric>>, <<CpuMetric, MemoryMetric>>,
                  <<CpuMetric, CpuMetric>>, <<PodsMetric, MemoryMetric>>}}
    \cup
    {[kind |-> "HorizontalPodAutoscaler",
      metadata |-> [name |-> "web-hpa"],
      spec |-> [scaleTargetRef |-> [name |-> "web"],
                targetCPUUtilizationPercentage |-> 80, metrics |-> ms]]
        : ms \in {<<>>, <<CpuMetric>>, <<MemoryMetric>>}}

HpaContainerLists ==
    { << [name |-> "app", resources |-> EmptyDict] >>,
      << [name |-> "app", resources |-> [requests |-> [cpu |-> "100m"]]],
         [name |-> "log", resources |-> [requests |-> [memory |-> "64Mi"]]] >>,
      << [name |-> "app"],
         [name |-> "app", resources |-> [requests |-> [cpu |-> "1", memory |-> "1Gi"],
                                         limits |-> [cpu |-> "2"]]] >>,
      << [name |-> "app", resources |-> None] >> }

HpaWorkloads ==
    {[kind |-> k, metadata |-> [name |-> n],
      spec |-> [template |-> [spec |-> [containers |-> cs]]]]
        : k \in {"Deployment", "StatefulSet", "DaemonSet"},
          n \in {"web", "db"},
          cs \in HpaContainerLists}
    \cup
    {[kind |-> "Deployment", metadata |-> [name |-> "web", namespace |-> "prod"],
      spec |-> [template |-> [spec |-> [containers |->
                   << [name |-> "app", resources |-> EmptyDict] >>]]]]}

InitHpa ==
    /\ FixIdle
    /\ SynIdle
    /\ BaseIdle
    /\ AuditIdle
    /\ HealIdle
    /\ doc \in HpaDocs
    /\ all_docs \in SeqsUpTo(HpaWorkloads, MaxDocs)
    /\ shpc = "call"
    /\ shOut = Return(<<>>)

SpecHpa == InitHpa /\ [][call_audit_hpa]_vars

\* ---- the documents of the Ingress check ----
IngressBackendForms ==
    { [service |-> [name |-> "web-svc", port |-> [number |-> 80]]],
      [service |-> [name |-> "web-svc", port |-> [number |-> 8080]]],
      [service |-> [name |-> "web-svc", port |-> [name |-> "http"]]],
      [service |-> [name |-> "web-svc", port |-> [name |-> "metrics"]]],
      [service |-> [name |-> "api-svc", port |-> [number |-> 80]]],
      [serviceName |-> "web-svc", servicePort |-> PyInt(8080)],
      [serviceName |-> "web-svc", servicePort |-> PyInt(80)] }

IngressDocs ==
    {[kind |-> "Ingress", metadata |-> m,
      spec |-> [rules |-> << [http |-> [paths |-> ps]] >>]]
        : m \in {[name |-> "web-ing"], [name |-> "web-ing", namespace |-> "prod"]},
          ps \in {<< [backend |-> b] >> : b \in IngressBackendForms}
                 \cup {<< [backend |-> [service |-> [name |-> "web-svc",
                                                     port |-> [number |-> 80]]]],
                          [backend |-> [service |-> [name |-> "web-svc",
                                                     port |-> [number |-> 8080]]]] >>}}

IngressServices ==
    {[kind |-> "Service", metadata |-> m, spec |-> [ports |-> ps]]
        : m \in {[name |-> "web-svc"], [name |-> "web-svc", namespace |-> "prod"],
                 [name |-> "api-svc"]},
          ps \in {<< [port |-> 80] >>,
                  << [port |-> 80, name |-> "http"] >>,
                  << [port |-> 8080, name |-> "metrics"], [port |-> 80] >>}}

InitIngress ==
    /\ FixIdle
    /\ SynIdle
    /\ BaseIdle
    /\ AuditIdle
    /\ HealIdle
    /\ doc \in IngressDocs
    /\ all_docs \in SeqsUpTo(IngressServices, MaxDocs)
    /\ shpc = "call"
    /\ shOut = Return(<<>>)

SpecIngress == InitIngress /\ [][call_check_ingress_service_alignment]_vars

\* ---- the documents of the deprecation check ----
ApiDocs ==
    {[kind |-> k, apiVersion |-> a, metadata |-> [name |-> n]]
        : k \in {"Deployment", "Ingress", "StatefulSet", "PodSecurityPolicy",
                 "PodDisruptionBudget", "HorizontalPodAutoscaler", "Service"},
          a \in {"extensions/v1beta1", "apps/v1", "networking.k8s.io/v1beta1",
                 "policy/v1beta1", "autoscaling/v2beta2", "v1"},
          n \in {"web", "db"}}
    \cup
    {[apiVersion |-> a, metadata |-> [name |-> "web"]]
        : a \in {"extensions/v1beta1", "policy/v1beta1", "v1"}}
    \cup
    {[kind |-> k, metadata |-> [name |-> "web"]] : k \in {"Deployment", "Service"}}

InitApi ==
    /\ FixIdle
    /\ SynIdle
    /\ BaseIdle
    /\ AuditIdle
    /\ HealIdle
    /\ doc \in ApiDocs
    /\ all_docs = <<>>
    /\ shpc = "call"
    /\ shOut = Return(<<>>)

SpecApi == InitApi /\ [][call_check_version_and_security]_vars

(***************************************************************************)
(* ---------------------------------------------------------------------- *)
(* A run of Synapse: scan_file on every file of the corpus in turn, then   *)
(* audit (main.py 574-578 and 616; test fixtures do the same).             *)
(***************************************************************************)
NotSyn == UNCHANGED <<fixVars, shieldVars, baseVars, healVars, auditVars>>

call_scan_file ==
    /\ synpc = "scan"
    /\ synapse' = Synapse_scan_file(synapse, corpus[synFile])
    /\ synFile' = synFile + 1
    /\ synpc' = IF synFile = Len(corpus) THEN "audit" ELSE "scan"
    /\ UNCHANGED <<corpus, results>>
    /\ NotSyn

call_audit ==
    /\ synpc = "audit"
    /\ results' = Synapse_audit(synapse)
    /\ synpc' = "done"
    /\ UNCHANGED <<corpus, synapse, synFile>>
    /\ NotSyn

NextSyn == call_scan_file \/ call_audit

\* A corpus of two files: a.yaml holds up to MaxDocs documents, b.yaml at
\* most one.
Corpora(Docs) ==
    {<< [name |-> "a.yaml", docs |-> da], [name |-> "b.yaml", docs |-> db] >>
        : da \in SeqsUpTo(Docs, MaxDocs), db \in SeqsUpTo(Docs, 1)}

SynInit(Docs) ==
    /\ corpus \in Corpora(Docs)
    /\ synapse = SynapseInit
    /\ synFile = 1
    /\ results = Return(<<>>)
    /\ synpc = "scan"

\* ---- the documents of the ghost-service and port checks ----
GhostWorkloads ==
    { [kind |-> "Deployment", metadata |-> [name |-> "web"],
       spec |-> [template |->
                   [metadata |-> [labels |-> [app |-> "web", tier |-> "fe"]],
                    spec |-> [containers |->
                                << [name |-> "app",
                                    ports |-> << [containerPort |-> 80, name |-> "http"] >>] >>]]]],
      [kind |-> "Deployment", metadata |-> [name |-> "web", namespace |-> "prod"],
       spec |-> [template |->
                   [metadata |-> [labels |-> [app |-> "web"]],
                    spec |-> [containers |->
                                << [name |-> "app",
                                    ports |-> << [containerPort |-> 8080] >>] >>]]]],
      [kind |-> "Pod", metadata |-> [name |-> "api", labels |-> [app |-> "api"]],
       spec |-> [containers |->
                   << [name |-> "api", ports |-> << [containerPort |-> 80] >>] >>]],
      [kind |-> "StatefulSet", metadata |-> [name |-> "db"],
       spec |-> [template |-> [spec |-> [containers |-> << [name |-> "db"] >>]]]],
      [kind |-> "Job", metadata |-> [name |-> "web-job"],
       spec |-> [template |->
                   [metadata |-> [labels |-> [app |-> "web"]],
                    spec |-> [containers |-> << [name |-> "job"] >>]]]] }

GhostServices ==
    { [kind |-> "Service", metadata |-> [name |-> "web-svc"],
       spec |-> [selector |-> [app |-> "web"],
                 ports |-> << [port |-> 80, targetPort |-> PyInt(80)] >>]],
      [kind |-> "Service", metadata |-> [name |-> "web-svc", namespace |-> "prod"],
       spec |-> [selector |-> [app |-> "web", tier |-> "fe"],
                 ports |-> << [port |-> 80, targetPort |-> PyStr("http")] >>]],
      [kind |-> "Service", metadata |-> [name |-> "ext"],
       spec |-> [ports |-> << [port |-> 443] >>]],
      [kind |-> "Service", metadata |-> [name |-> "web-svc"],
       spec |-> [selector |-> [tier |-> "fe"],
                 ports |-> << [port |-> 80, targetPort |-> PyInt(9999)] >>]] }

\* A document whose metadata is null.
NullMetadataDoc == [kind |-> "ConfigMap", metadata |-> None]

GhostDocs == GhostWorkloads \cup GhostServices \cup {NullMetadataDoc}

InitGhost ==
    FixIdle /\ ShieldIdle /\ BaseIdle /\ HealIdle /\ AuditIdle /\ SynInit(GhostDocs)

SpecGhost == InitGhost /\ [][NextSyn]_vars

\* ---- the documents of the volume-reference check ----
VolWorkload(kind, name, meta, volumes) ==
    [kind |-> kind, metadata |-> [name |-> name] @@ meta,
     spec |-> [template |-> [spec |-> [containers |-> << [name |-> "app"] >>,
                                       volumes |-> volumes]]]]

VolDocs ==
    { VolWorkload("Deployment", "web", EmptyDict,
                  << [name |-> "cfg", configMap |-> [name |-> "settings"]] >>),
      VolWorkload("StatefulSet", "db", EmptyDict,
                  << [name |-> "pw", secret |-> [secretName |-> "creds"]] >>),
      VolWorkload("DaemonSet", "agent", [namespace |-> "prod"],
                  << [name |-> "cfg", configMap |-> [name |-> "settings"]],
                     [name |-> "tmp", emptyDir |-> EmptyDict] >>),
      VolWorkload("Deployment", "api", EmptyDict,
                  << [name |-> "both", configMap |-> [name |-> "settings"],
                      secret |-> [secretName |-> "creds"]] >>),
      [kind |-> "ConfigMap", metadata |-> [name |-> "settings"]],
      [kind |-> "ConfigMap", metadata |-> [name |-> "settings", namespace |-> "prod"]],
      [kind |-> "Secret", metadata |-> [name |-> "settings"]],
      [kind |-> "Secret", metadata |-> [name |-> "creds"]] }

InitVol ==
    FixIdle /\ ShieldIdle /\ BaseIdle /\ HealIdle /\ AuditIdle /\ SynInit(VolDocs)

SpecVol == InitVol /\ [][NextSyn]_vars

(***************************************************************************)
(* ---------------------------------------------------------------------- *)
(* One call of _filter_baseline.                                           *)
(***************************************************************************)
\* The longest list of issues a call is handed.
MaxIssues == 3

IssueUniverse ==
    {[file |-> f, code |-> c, line |-> l]
        : f \in {"svc.yaml", "web.yaml"}, c \in {"GHOST", "OOM_RISK"}, l \in {1, 7}}

\* The baselines `kubecuro baseline` can have saved from an earlier scan.
Baselines == {_save_baseline(saved) : saved \in SeqsUpTo(IssueUniverse, 2)}

call_filter_baseline ==
    /\ fbpc = "call"
    /\ LET out == _filter_baseline(issues, baseline, show_all)
       IN  /\ reporting' = out.reporting
           /\ suppressed' = out.suppressed
    /\ fbpc' = "done"
    /\ UNCHANGED <<issues, baseline, show_all>>
    /\ UNCHANGED <<fixVars, shieldVars, synVars, healVars, auditVars>>

InitBaseline ==
    /\ FixIdle
    /\ ShieldIdle
    /\ SynIdle
    /\ HealIdle
    /\ AuditIdle
    /\ issues \in SeqsUpTo(IssueUniverse, MaxIssues)
    /\ baseline \in Baselines
    /\ show_all \in BOOLEAN
    /\ reporting = <<>>
    /\ suppressed = EmptyDict
    /\ fbpc = "call"

SpecBaseline == InitBaseline /\ [][call_filter_baseline]_vars

(***************************************************************************)
(* ---------------------------------------------------------------------- *)
(* One call of apply_security_patches.                                     *)
(***************************************************************************)
NotHeal == UNCHANGED <<fixVars, shieldVars, synVars, baseVars, auditVars>>

\* What a container runs: a plain image, an idle placeholder, a sidecar.
PatchContainerBases ==
    { [name |-> "app", image |-> "nginx:1.25"],
      [name |-> "idle", image |-> "busybox", command |-> << "sleep", "3600" >>],
      [name |-> "mesh", image |-> "Envoy:v1.28"],
      [name |-> "logs", image |-> "fluentd:v1.16", args |-> << "-c", "sleep infinity" >>] }

PatchResources ==
    { [requests |-> [cpu |-> "250m"]],
      [requests |-> [cpu |-> "600m", memory |-> "300Mi"]],
      [requests |-> [cpu |-> "1"]],
      [requests |-> [cpu |-> "1k"]],
      [requests |-> [cpu |-> "2"], limits |-> [cpu |-> "2", memory |-> "1Gi"]],
      None }

PatchContainers ==
    PatchContainerBases
    \cup {("resources" :> r) @@ b
            : r \in PatchResources,
              b \in {c \in PatchContainerBases : c.name \in {"app", "idle"}}}
    \cup {[name |-> "root", image |-> "nginx:1.25",
           securityContext |-> [privileged |-> PyBool(TRUE)]]}

PatchDocs ==
    {[kind |-> "Deployment", metadata |-> [name |-> "web"],
      spec |-> [template |-> [spec |-> [containers |-> cs]]]]
        : cs \in SeqsUpTo(PatchContainers, MaxContainers)}
    \cup
    {[kind |-> "Pod", metadata |-> [name |-> "web"], spec |-> [containers |-> cs]]
        : cs \in SeqsUpTo(PatchContainers, MaxContainers) \ {<<>>}}
    \cup
    {[kind |-> "Service", metadata |-> [name |-> "web"], spec |-> [ports |-> <<>>]],
     [kind |-> "ConfigMap", metadata |-> [name |-> "web"]]}

call_apply_security_patches ==
    /\ healpc = "call"
    /\ hOut' = apply_security_patches(hDoc, Get(hDoc, "kind", ""), 1,
                                      healFlags.apply_defaults)
    /\ healpc' = "done"
    /\ UNCHANGED <<content, healFlags, passes, hDoc>>
    /\ NotHeal

InitPatch ==
    /\ FixIdle
    /\ ShieldIdle
    /\ SynIdle
    /\ BaseIdle
    /\ AuditIdle
    /\ content = [lead |-> FALSE, segs |-> <<>>]
    /\ healFlags \in {[apply_fixes |-> TRUE, apply_defaults |-> a,
                       dry_run |-> FALSE, return_content |-> FALSE] : a \in BOOLEAN}
    /\ passes = <<>>
    /\ hDoc \in PatchDocs
    /\ hOut = [raised |-> FALSE, doc |-> EmptyDict, codes |-> {}]
    /\ healpc = "call"

SpecPatch == InitPatch /\ [][call_apply_security_patches]_vars

(***************************************************************************)
(* ---- apply_security_patches on containers that request memory -----------*)
(***************************************************************************)
MemRequests ==
    {"100Mi", "256Mi", "300Mi", "1Gi", "131072Ki", "200000Ki", "262144Ki", "262145Ki",
     "32769Ki"}

MemContainers ==
    {("resources" :> [requests |-> [memory |-> m]]) @@ b
        : m \in MemRequests,
          b \in {c \in PatchContainerBases : c.name \in {"app", "idle"}}}

MemDocs ==
    {[kind |-> "Deployment", metadata |-> [name |-> "web"],
      spec |-> [template |-> [spec |-> [containers |-> cs]]]]
        : cs \in SeqsUpTo(MemContainers, MaxContainers) \ {<<>>}}
    \cup
    {[kind |-> "Pod", metadata |-> [name |-> "web"], spec |-> [containers |-> cs]]
        : cs \in SeqsUpTo(MemContainers, MaxContainers) \ {<<>>}}

InitMem ==
    /\ FixIdle
    /\ ShieldIdle
    /\ SynIdle
    /\ BaseIdle
    /\ AuditIdle
    /\ content = [lead |-> FALSE, segs |-> <<>>]
    /\ healFlags \in {[apply_fixes |-> TRUE, apply_defaults |-> a,
                       dry_run |-> FALSE, return_content |-> FALSE] : a \in BOOLEAN}
    /\ passes = <<>>
    /\ hDoc \in MemDocs
    /\ hOut = [raised |-> FALSE, doc |-> EmptyDict, codes |-> {}]
    /\ healpc = "call"

SpecMem == InitMem /\ [][call_apply_security_patches]_vars

(***************************************************************************)
(* ---------------------------------------------------------------------- *)
(* Passes of heal_file over one file, each with the same flags.            *)
(***************************************************************************)
\* The most passes over the file.
MaxPasses == 2

call_heal_file ==
    /\ healpc = "heal"
    /\ \E r \in {heal_file(content, healFlags)} :
           /\ passes' = Append(passes, [given |-> content,
                                        healed_final |-> r.healed_final,
                                        changed |-> r.changed,
                                        codes |-> r.codes])
           /\ content' = IF r.written THEN r.healed_final ELSE content
    /\ healpc' = IF Len(passes) + 1 >= MaxPasses THEN "done" ELSE "heal"
    /\ UNCHANGED <<healFlags, hDoc, hOut>>
    /\ NotHeal

HealContainer(resources) ==
    [name |-> "app", image |-> "nginx:1.25", resources |-> resources]

HealDeployment(api, more, containers) ==
    [apiVersion |-> api, kind |-> "Deployment", metadata |-> [name |-> "web"],
     spec |-> more @@ [template |-> [metadata |-> [labels |-> [app |-> "web"]],
                                     spec |-> [containers |-> containers]]]]

Limited == [limits |-> [cpu |-> "1", memory |-> "1Gi"]]

HealDocs ==
    { HealDeployment("extensions/v1beta1", EmptyDict, << HealContainer(Limited) >>),
      HealDeployment("extensions/v1beta1",
                     [selector |-> [matchLabels |-> [app |-> "web"]]],
                     << [name |-> "app", image |-> "nginx:1.25"] >>),
      [apiVersion |-> "extensions/v1beta1", kind |-> "Deployment",
       metadata |-> [name |-> "bare"],
       spec |-> [replicas |-> 1,
                 template |-> [spec |-> [containers |-> << HealContainer(Limited) >>]]]],
      HealDeployment("extensions/v1beta1",
                     [selector |-> [matchLabels |-> [app |-> "web"]]],
                     << HealContainer(None) >>),
      HealDeployment("apps/v1", [selector |-> [matchLabels |-> [app |-> "web"]]],
                     << [name |-> "root", image |-> "nginx:1.25",
                         securityContext |-> [privileged |-> PyBool(TRUE)]] >>),
      [apiVersion |-> "extensions/v1beta1", kind |-> "PodSecurityPolicy",
       metadata |-> [name |-> "restricted"]],
      [apiVersion |-> "v1", kind |-> "Service", metadata |-> [name |-> "web"],
       spec |-> [ports |-> << [port |-> 80] >>]] }

HealSegs ==
    {[form |-> "clean", doc |-> d] : d \in HealDocs}
    \cup {[form |-> f, doc |-> [apiVersion |-> "v1", kind |-> "ConfigMap",
                                metadata |-> [name |-> "settings"]]]
            : f \in {"tabs", "dumped"}}
    \cup {[form |-> f, doc |-> None] : f \in {"blank", "broken", "clean"}}

InitHeal ==
    /\ FixIdle
    /\ ShieldIdle
    /\ SynIdle
    /\ BaseIdle
    /\ AuditIdle
    /\ content \in {[lead |-> FALSE, segs |-> ss] : ss \in SeqsUpTo(HealSegs, MaxDocs)}
    /\ healFlags \in [apply_fixes : BOOLEAN, apply_defaults : BOOLEAN,
                      dry_run : BOOLEAN, return_content : BOOLEAN]
    /\ passes = <<>>
    /\ hDoc = EmptyDict
    /\ hOut = [raised |-> FALSE, doc |-> EmptyDict, codes |-> {}]
    /\ healpc = "heal"

SpecHeal == InitHeal /\ [][call_heal_file]_vars

(***************************************************************************)
(* ---- heal_file on pod templates with a token setting and on roles -------*)
(***************************************************************************)
FrameDeployment(api, more, pod) ==
    [apiVersion |-> api, kind |-> "Deployment", metadata |-> [name |-> "web"],
     spec |-> more @@ [template |-> [metadata |-> [labels |-> [app |-> "web"]],
                                     spec |-> pod]]]

FrameRole(kind, rules) ==
    [apiVersion |-> "rbac.authorization.k8s.io/v1", kind |-> kind,
     metadata |-> [name |-> "ops"], rules |-> rules]

FrameDocs ==
    { FrameDeployment("apps/v1", [selector |-> [matchLabels |-> [app |-> "web"]]],
                      [automountServiceAccountToken |-> PyBool(TRUE),
                       containers |-> << HealContainer(Limited) >>]),
      FrameDeployment("apps/v1", [selector |-> [matchLabels |-> [app |-> "web"]]],
                      [containers |-> << [name |-> "root", image |-> "nginx:1.25",
                                          securityContext |->
                                              [privileged |-> PyBool(TRUE)]] >>]),
      FrameDeployment("extensions/v1beta1", EmptyDict,
                      [automountServiceAccountToken |-> PyBool(FALSE),
                       containers |-> << [name |-> "app", image |-> "nginx:1.25"] >>]),
      FrameRole("Role",
                << [apiGroups |-> << "*" >>, resources |-> << "*" >>, verbs |-> << "*" >>],
                   [apiGroups |-> << "" >>, resources |-> << "secrets" >>,
                    verbs |-> << "get", "list" >>] >>),
      FrameRole("ClusterRole",
                << [apiGroups |-> << "" >>, resources |-> << "pods" >>,
                    verbs |-> << "get" >>] >>) }

FrameSegs ==
    {[form |-> "clean", doc |-> d] : d \in FrameDocs}
    \cup {[form |-> "tabs", doc |-> FrameRole("Role",
              << [apiGroups |-> << "" >>, resources |-> << "secrets" >>,
                  verbs |-> << "watch" >>] >>)],
          [form |-> "blank", doc |-> None]}

InitFrame ==
    /\ FixIdle
    /\ ShieldIdle
    /\ SynIdle
    /\ BaseIdle
    /\ AuditIdle
    /\ content \in {[lead |-> FALSE, segs |-> ss] : ss \in SeqsUpTo(FrameSegs, MaxDocs)}
    /\ healFlags \in [apply_fixes : BOOLEAN, apply_defaults : BOOLEAN,
                      dry_run : BOOLEAN, return_content : BOOLEAN]
    /\ passes = <<>>
    /\ hDoc = EmptyDict
    /\ hOut = [raised |-> FALSE, doc |-> EmptyDict, codes |-> {}]
    /\ healpc = "heal"

SpecFrame == InitFrame /\ [][call_heal_file]_vars

(***************************************************************************)
(* ---- The line arithmetic of heal_file ------------------------------------*)
(* Here the text of a file is the sequence of its lines, each ended by a   *)
(* newline: a separator "---", an empty line, or a line that holds a key.  *)
(* A piece of re.split is [start, rows]: rows is doc_str.splitlines() and  *)
(* start the line of the file on which the first character of the piece    *)
(* lies, so that rows[j] lies on the line start + j - 1 of the file.       *)
(***************************************************************************)
\* The most lines of a file.
MaxLines == 5

KeyLine == "key: v"

\* The lines that hold a separator.
Separators(text) == {i \in 1..Len(text) : text[i] = "---"}

\* The first separator after the line i, or the line past the end.
NextSeparator(text, i) ==
    IF \E j \in Separators(text) : j > i
      THEN CHOOSE j \in Separators(text) : j > i /\ \A k \in Separators(text) : k > i => j <= k
      ELSE Len(text) + 1

\* The empty lines that follow the line i directly.
BlankRun(text, i) ==
    LET stops == {j \in (i + 1)..Len(text) : text[j] # ""} \cup {Len(text) + 1}
    IN  (CHOOSE j \in stops : \A k \in stops : j <= k) - i - 1

\* The piece that follows the separator on the line i: \s* of the pattern
\* takes the newlines up to the last one before the next line that is not
\* empty, and all of them where the text ends there.
PieceAfter(text, i) ==
    LET b == BlankRun(text, i)
    IN  IF i + b = Len(text) THEN [start |-> i + b, rows |-> <<>>]
        ELSE [start |-> i + b,
              rows |-> << "" >> \o SubSeq(text, i + b + 1, NextSeparator(text, i) - 1)]

\* re.split(r'^---\s*$', original_content, flags=re.MULTILINE), healer.py 155.
raw_docs(text) ==
    LET F[i \in 1..(Len(text) + 1)] ==
            IF i > Len(text) THEN <<>>
            ELSE IF text[i] = "---" THEN << PieceAfter(text, i) >> \o F[i + 1]
            ELSE F[i + 1]
    IN  << [start |-> 1, rows |-> SubSeq(text, 1, NextSeparator(text, 0) - 1)] >> \o F[1]

\* not doc_str.strip()
IsBlankPiece(piece) == \A j \in DOMAIN piece.rows : piece.rows[j] = ""

\* The codes of one piece that carry the line of a field: the decoder marks
\* the key on the row j of the text it is given with the line j, get_line
\* returns it (healer.py 55-65), and the code carries
\* global_line_offset + (get_line - 1) (healer.py 100, 125, 141); row is the
\* line of the file the key lies on.
FieldLines(piece, ordinal, global_line_offset) ==
    {[doc |-> ordinal, row |-> piece.start + j - 1, line |-> global_line_offset + (j - 1)]
        : j \in {k \in DOMAIN piece.rows : piece.rows[k] = KeyLine}}

RECURSIVE LinePass(_, _, _, _, _)
\* The running offset of PASS 2, healer.py 180-183 and 253: lines_in_doc + 1
\* for every piece, the dropped ones included; ordinal counts the pieces that
\* are kept.
LinePass(pieces, i, ordinal, current_line_offset, acc) ==
    IF i > Len(pieces) THEN acc
    ELSE IF IsBlankPiece(pieces[i])
      THEN LinePass(pieces, i + 1, ordinal,
                    current_line_offset + Len(pieces[i].rows) + 1, acc)
    ELSE LinePass(pieces, i + 1, ordinal + 1,
                  current_line_offset + Len(pieces[i].rows) + 1,
                  [docs |-> Append(acc.docs, [start |-> pieces[i].start,
                                              offset |-> current_line_offset]),
                   codes |-> acc.codes
                               \cup FieldLines(pieces[i], ordinal + 1, current_line_offset)])

\* heal_file as far as lines go: the kept pieces with the offset each one is
\* healed under, and the codes of their fields.
call_line_offsets ==
    /\ healpc = "lines"
    /\ \E r \in {LinePass(raw_docs(content), 1, 0, 1, [docs |-> <<>>, codes |-> {}])} :
           hOut' = [raised |-> FALSE, doc |-> r.docs, codes |-> r.codes]
    /\ healpc' = "lines done"
    /\ UNCHANGED <<content, healFlags, passes, hDoc>>
    /\ NotHeal

InitLines ==
    /\ FixIdle
    /\ ShieldIdle
    /\ SynIdle
    /\ BaseIdle
    /\ AuditIdle
    /\ content \in SeqsUpTo({"---", "", KeyLine}, MaxLines)
    /\ healFlags = [apply_fixes |-> TRUE, apply_defaults |-> FALSE,
                    dry_run |-> FALSE, return_content |-> FALSE]
    /\ passes = <<>>
    /\ hDoc = EmptyDict
    /\ hOut = [raised |-> FALSE, doc |-> EmptyDict, codes |-> {}]
    /\ healpc = "lines"

SpecLines == InitLines /\ [][call_line_offsets]_vars


(***************************************************************************)
(* ---- One turn of the fix loop on a file with its text --------------------*)
(* The turn of _execute_zero_downtime_fixes for one file (main.py 932-958) *)
(* with the _atomic_fix call it makes (main.py 1002-1034), in one step:    *)
(* the rename or the open fails and the file holds the original again      *)
(* ("restored"), the write or the flush fails and the file holds the       *)
(* pieces that reached it ("partial"), or the file holds the healed text   *)
(* ("persisted").  healFlags.apply_defaults is AuditEngineV2.apply_defaults.*)
(***************************************************************************)
\* The texts a write that fails leaves: the pieces that were spilled.
Spilled(text) ==
    {[lead |-> text.lead, segs |-> SubSeq(text.segs, 1, k)] : k \in 0..(Len(text.segs) - 1)}

fix_file ==
    /\ healpc = "fix"
    /\ \E r \in {heal_file(content, [apply_fixes |-> TRUE,
                                      apply_defaults |-> healFlags.apply_defaults,
                                      dry_run |-> FALSE, return_content |-> TRUE])} :
           /\ passes' = Append(passes, [given |-> content,
                                        healed_final |-> r.healed_final,
                                        changed |-> r.changed,
                                        codes |-> r.codes])
           /\ IF ~(r.healed_final.segs # <<>> /\ r.healed_final # content)  \* has_changed
                THEN content' = content /\ healpc' = "unchanged"
                ELSE \/ content' = content /\ healpc' = "restored"
                     \/ content' \in Spilled(r.healed_final) /\ healpc' = "partial"
                     \/ content' = r.healed_final /\ healpc' = "persisted"
    /\ UNCHANGED <<healFlags, hDoc, hOut>>
    /\ NotHeal

InitFixFile ==
    /\ FixIdle
    /\ ShieldIdle
    /\ SynIdle
    /\ BaseIdle
    /\ AuditIdle
    /\ content \in {[lead |-> FALSE, segs |-> ss] : ss \in SeqsUpTo(HealSegs, MaxDocs)}
    /\ healFlags \in {[apply_fixes |-> TRUE, apply_defaults |-> b,
                        dry_run |-> FALSE, return_content |-> TRUE] : b \in BOOLEAN}
    /\ passes = <<>>
    /\ hDoc = EmptyDict
    /\ hOut = [raised |-> FALSE, doc |-> EmptyDict, codes |-> {}]
    /\ healpc = "fix"

SpecFixFile == InitFixFile /\ [][fix_file]_vars

(***************************************************************************)
(* ---- A command on one file with its text ---------------------------------*)
(* execute(command) audits first: the healer phase of audit() takes the    *)
(* file through _silent_healer (main.py 465-488, 627).  Then scan renders, *)
(* fix ends where audit() found no issue, renders where dry_run is set and *)
(* runs the fix loop otherwise (main.py 526-545).  healFlags holds         *)
(* AuditEngineV2.apply_defaults and AuditEngineV2.dry_run here.  Next to   *)
(* the command stands heal_file called on the file by itself, under any    *)
(* flags.                                                                  *)
(***************************************************************************)
audit_silent_healer ==
    /\ healpc = "audit"
    /\ \E r \in {heal_file(content, [apply_fixes |-> TRUE,
                                      apply_defaults |-> healFlags.apply_defaults,
                                      dry_run |-> FALSE, return_content |-> TRUE])} :
           /\ passes' = Append(passes, [given |-> content,
                                        healed_final |-> r.healed_final,
                                        changed |-> r.changed,
                                        codes |-> r.codes])
           /\ content' = IF r.written THEN r.healed_final ELSE content
    /\ healpc' = "execute"
    /\ UNCHANGED <<healFlags, hDoc, hOut>>
    /\ NotHeal

\* main.py 526-545.  The codes of the healer are among the issues of
\* audit(); where it found none, the other phases may have.
execute_command ==
    /\ healpc = "execute"
    /\ \E command \in {"scan", "fix"}, no_issues \in BOOLEAN :
           /\ no_issues => passes[1].codes = {}
           /\ healpc' = IF command = "scan" THEN "rendered"
                         ELSE IF no_issues THEN "healthy"
                         ELSE IF healFlags.dry_run THEN "rendered"
                         ELSE "fix"
    /\ UNCHANGED <<content, healFlags, passes, hDoc, hOut>>
    /\ NotHeal

WriteSegs ==
    { [form |-> "blank", doc |-> None],
      [form |-> "broken", doc |-> None],
      [form |-> "tabs", doc |-> [apiVersion |-> "v1", kind |-> "ConfigMap",
                                 metadata |-> [name |-> "settings"]]],
      [form |-> "dumped", doc |-> [apiVersion |-> "v1", kind |-> "ConfigMap",
                                   metadata |-> [name |-> "settings"]]],
      [form |-> "clean",
       doc |-> HealDeployment("extensions/v1beta1", EmptyDict,
                              << [name |-> "app", image |-> "nginx:1.25"] >>)] }

InitWrite ==
    /\ FixIdle
    /\ ShieldIdle
    /\ SynIdle
    /\ BaseIdle
    /\ AuditIdle
    /\ content \in {[lead |-> FALSE, segs |-> ss] : ss \in SeqsUpTo(WriteSegs, MaxDocs)}
    /\ \/ /\ healpc = "heal"
          /\ healFlags \in [apply_fixes : BOOLEAN, apply_defaults : BOOLEAN,
                            dry_run : BOOLEAN, return_content : BOOLEAN]
       \/ /\ healpc = "audit"
          /\ healFlags \in {[apply_fixes |-> TRUE, apply_defaults |-> a,
                             dry_run |-> d, return_content |-> TRUE]
                               : a \in BOOLEAN, d \in BOOLEAN}
    /\ passes = <<>>
    /\ hDoc = EmptyDict
    /\ hOut = [raised |-> FALSE, doc |-> EmptyDict, codes |-> {}]

NextWrite == call_heal_file \/ audit_silent_healer \/ execute_command \/ fix_file

SpecWrite == InitWrite /\ [][NextWrite]_vars

(***************************************************************************)
(* ---- One call of AuditEngineV2.audit -------------------------------------*)
(***************************************************************************)
NotAudit == UNCHANGED <<fixVars, shieldVars, synVars, healVars>>

\* One turn of `for i, fpath in enumerate(files, 1)`, main.py 574-680.
audit_file ==
    /\ aupc = "files"
    /\ \E r \in {AuditFile([issues |-> issues, seen |-> seen, syn |-> syn],
                           files[fileIdx + 1], fileIdx + 1, auDefaults)} :
           /\ issues' = r.issues
           /\ seen' = r.seen
           /\ syn' = r.syn
           /\ crossLog' = crossLog \o r.log
    /\ fileIdx' = fileIdx + 1
    /\ aupc' = IF fileIdx + 1 = Len(files) THEN "sync" ELSE "files"
    /\ UNCHANGED <<files, auDefaults, baseline, show_all, reporting, suppressed, fbpc>>
    /\ NotAudit

\* PHASE 4 and the return, main.py 680-692.  An exception of syn.audit()
\* leaves audit().
audit_global_sync ==
    /\ aupc = "sync"
    /\ \E found \in {Synapse_audit(syn)} :
           IF found.raised
             THEN /\ aupc' = "raised"
                  /\ UNCHANGED <<issues, seen>>
             ELSE \E r \in {GlobalSync([issues |-> issues, seen |-> seen],
                                       found.findings)} :
                      /\ issues' = r.issues
                      /\ seen' = r.seen
                      /\ aupc' = "done"
    /\ crossLog' = Append(crossLog, [by |-> "Synapse.audit", at |-> fileIdx,
                                     sees |-> Origins(syn.all_docs)])
    /\ UNCHANGED <<files, auDefaults, fileIdx, syn,
                   baseline, show_all, reporting, suppressed, fbpc>>
    /\ NotAudit

NextAudit == audit_file \/ audit_global_sync

\* ---- the files of the audit ----
Lc(line) == [line |-> line, data |-> EmptyDict]

\* A file of the directory the audit is started in (its path is its name).
AuditFileOf(name, text) ==
    [path |-> name, name |-> name, full |-> "/repo/" \o name,
     unreadable |-> FALSE, mark |-> 0, text |-> [lead |-> FALSE, segs |-> text]]

AuditWeb ==
    [lc |-> Lc(0), apiVersion |-> "apps/v1", kind |-> "Deployment",
     metadata |-> [name |-> "web"],
     spec |-> [selector |-> [matchLabels |-> [app |-> "web"]],
               template |->
                 [metadata |-> [labels |-> [app |-> "web"]],
                  spec |-> [lc |-> Lc(11),
                            automountServiceAccountToken |-> PyBool(FALSE),
                            containers |-> << [lc |-> Lc(13), name |-> "app",
                                               image |-> "nginx:1.25"] >>]]]]

AuditHpa ==
    [apiVersion |-> "autoscaling/v2", kind |-> "HorizontalPodAutoscaler",
     metadata |-> [name |-> "web-hpa"],
     spec |-> [scaleTargetRef |-> [kind |-> "Deployment", name |-> "web"],
               metrics |-> <<>>]]

AuditIngress ==
    [apiVersion |-> "networking.k8s.io/v1", kind |-> "Ingress",
     metadata |-> [name |-> "web-ing"],
     spec |-> [rules |-> << [http |-> [paths |-> << [backend |->
                  [service |-> [name |-> "api", port |-> [number |-> 80]]]] >>]] >>]]

AuditConfigMap ==
    [apiVersion |-> "v1", kind |-> "ConfigMap", metadata |-> [name |-> "settings"]]

AuditService ==
    [apiVersion |-> "v1", kind |-> "Service", metadata |-> [name |-> "api"],
     spec |-> [selector |-> [app |-> "web"], ports |-> << [port |-> 80] >>]]

AuditRoot ==
    [lc |-> Lc(0), apiVersion |-> "apps/v1", kind |-> "Deployment",
     metadata |-> [name |-> "root"],
     spec |-> [selector |-> [matchLabels |-> [app |-> "root"]],
               template |->
                 [metadata |-> [labels |-> [app |-> "root"]],
                  spec |-> [lc |-> Lc(11),
                            automountServiceAccountToken |-> PyBool(FALSE),
                            containers |-> << [lc |-> Lc(13), name |-> "root",
                                               image |-> "nginx:1.25",
                                               resources |-> Limited,
                                               securityContext |->
                                                   [privileged |-> PyBool(TRUE)]] >>]]]]

Clean(d) == [form |-> "clean", doc |-> d]

AuditFiles ==
    { AuditFileOf("web.yaml", << Clean(AuditWeb) >>),
      AuditFileOf("hpa.yaml", << Clean(AuditHpa) >>),
      AuditFileOf("ing.yaml", << Clean(AuditIngress), Clean(AuditConfigMap) >>),
      [AuditFileOf("bad.yaml", << [form |-> "broken", doc |-> None] >>)
         EXCEPT !.mark = 4],
      [AuditFileOf("bin.yaml", << [form |-> "broken", doc |-> None] >>)
         EXCEPT !.unreadable = TRUE],
      [AuditFileOf("svc.yaml", << Clean(AuditService) >>)
         EXCEPT !.path = "k8s/svc.yaml", !.full = "/repo/k8s/svc.yaml"],
      [AuditFileOf("root.yaml", << Clean(AuditRoot) >>)
         EXCEPT !.path = "k8s/root.yaml", !.full = "/repo/k8s/root.yaml"] }

InitAudit ==
    /\ FixIdle
    /\ ShieldIdle
    /\ SynIdle
    /\ HealIdle
    /\ issues = <<>>
    /\ baseline = {}
    /\ show_all = FALSE
    /\ reporting = <<>>
    /\ suppressed = EmptyDict
    /\ fbpc = "idle"
    /\ files \in {fs \in SeqsUpTo(AuditFiles, NumFiles) :
                     /\ fs # <<>>
                     /\ \A i, j \in 1..Len(fs) : i # j => fs[i] # fs[j]}
    /\ auDefaults \in BOOLEAN
    /\ fileIdx = 0
    /\ syn = SynapseInit
    /\ seen = {}
    /\ crossLog = <<>>
    /\ aupc = "files"

SpecAudit == InitAudit /\ [][NextAudit]_vars

(***************************************************************************)
(* ---------------------------------------------------------------------- *)
(* The specification of the fix pipeline.                                  *)
(***************************************************************************)
Init == FixInit /\ ShieldIdle /\ SynIdle /\ BaseIdle /\ HealIdle /\ AuditIdle

Next == NextFix

Spec == Init /\ [][Next]_vars

(***************************************************************************)
(* ---------------------------------------------------------------------- *)
(* The claims.                                                             *)
(***************************************************************************)
\* How many elements of the sequence s satisfy p.
Count(s, p(_)) == Cardinality({i \in 1..Len(s) : p(s[i])})

\* C1: when a step of _atomic_fix fails after the original was renamed to
\* the backup path, the call ends with the target holding the original
\* content and reports failure.
C1_RollbackRestoresOriginal ==
    (afpc = "aborted" /\ afRenamed /\ afFail # "none")
        => /\ disk[afFile].target = "orig"
           /\ afRet[afFile] \in {"false", "raised"}

\* ---- C7 ----
\* The autoscaler's target as the claim names it: the first Deployment or
\* StatefulSet of the corpus that carries the scaleTargetRef name (0: none).
C7_Target ==
    LET t == doc.spec.scaleTargetRef.name
        hit == {i \in 1..Len(all_docs) :
                    /\ all_docs[i].kind \in {"Deployment", "StatefulSet"}
                    /\ all_docs[i].metadata.name = t}
    IN  IF hit = {} THEN 0 ELSE CHOOSE i \in hit : \A j \in hit : i <= j

\* The resource metrics the autoscaler scales on.
C7_Metrics ==
    (IF "targetCPUUtilizationPercentage" \in DOMAIN doc.spec THEN {"cpu"} ELSE {})
    \cup {doc.spec.metrics[i].resource.name :
            i \in {j \in 1..Len(doc.spec.metrics) : doc.spec.metrics[j].type = "Resource"}}

\* Container c declares a request for metric m.
C7_Declares(c, m) ==
    /\ "resources" \in DOMAIN c
    /\ "requests" \in DOMAIN c.resources
    /\ m \in DOMAIN c.resources.requests

C8_DeclaredPort(b) ==
    IF "service" \in DOMAIN b
      THEN IF "number" \in DOMAIN b.service.port
             THEN PyInt(b.service.port.number)
             ELSE PyStr(b.service.port.name)
      ELSE b.servicePort

C8_ServiceName(b) == IF "service" \in DOMAIN b THEN b.service.name ELSE b.serviceName

C8_Namespace(d) ==
    IF "namespace" \in DOMAIN d.metadata THEN d.metadata.namespace ELSE "default"

\* The Services of the corpus a backend names, in the Ingress's namespace.
C8_Services(b) ==
    {i \in 1..Len(all_docs) :
        /\ all_docs[i].kind = "Service"
        /\ all_docs[i].metadata.name = C8_ServiceName(b)
        /\ C8_Namespace(all_docs[i]) = C8_Namespace(doc)}

\* The declared port is among the port numbers or the port names of svc.
C8_Among(port, svc) ==
    \E i \in 1..Len(svc.spec.ports) :
        LET p == svc.spec.ports[i]
        IN  \/ IsInt(port) /\ p.port = port.int
            \/ IsStr(port) /\ "name" \in DOMAIN p /\ p.name = port.str

\* C8: for each Ingress backend whose named Service exists in the Ingress's
\* namespace, check_ingress_service_alignment returns an
\* INGRESS_PORT_MISMATCH finding of Critical severity if and only if the
\* port the backend declares (a number or a name) is not among the port
\* numbers and port names of that Service; one finding per such backend.
C8_IngressPortMismatch ==
    shpc = "check_ingress_service_alignment" =>
        LET bs == IngressBackends(doc.spec)
            fs == shOut.findings
            resolved == {k \in 1..Len(bs) : C8_Services(bs[k]) # {}}
            svc(k) == all_docs[CHOOSE i \in C8_Services(bs[k]) :
                                  \A j \in C8_Services(bs[k]) : i <= j]
            mismatching == {k \in resolved : ~C8_Among(C8_DeclaredPort(bs[k]), svc(k))}
            is(f) == f.code = "INGRESS_PORT_MISMATCH" /\ f.severity = CRITICAL
        IN  Count(fs, is) = Cardinality(mismatching)

\* ---- C9 ----
\* C9: check_version_and_security returns exactly one API_DEPRECATED finding,
\* of Medium severity, if and only if the document's apiVersion is a key of
\* the deprecation table (none otherwise); the replacement it names is the
\* table entry for the document's kind when the entry is a per-kind mapping
\* holding the kind, the entry's 'default' when it does not hold the kind,
\* and the entry itself when the entry is a single value.
C9_ApiDeprecated ==
    shpc = "check_version_and_security" =>
        LET fs == shOut.findings
            is(f) == f.code = "API_DEPRECATED"
            listed == "apiVersion" \in DOMAIN doc /\ doc.apiVersion \in DOMAIN DEPRECATIONS
            entry == DEPRECATIONS[doc.apiVersion]
            expected ==
                IF DOMAIN entry = {"str"} THEN entry.str
                ELSE IF "kind" \in DOMAIN doc /\ doc.kind \in DOMAIN entry
                  THEN entry[doc.kind]
                  ELSE entry.default
        IN  /\ Count(fs, is) = IF listed THEN 1 ELSE 0
            /\ \A i \in 1..Len(fs) :
                  is(fs[i]) => fs[i].severity = MEDIUM /\ fs[i].msg.better = expected

\* C9's case: a per-kind entry that holds the document's kind and differs
\* from the entry's default.
C9_Witness ==
    /\ shpc = "check_version_and_security"
    /\ \E i \in 1..Len(shOut.findings) :
          /\ shOut.findings[i].code = "API_DEPRECATED"
          /\ shOut.findings[i].msg.kind = "Ingress"
          /\ shOut.findings[i].msg.api = "extensions/v1beta1"
          /\ shOut.findings[i].msg.better = "networking.k8s.io/v1"

\* ---- C3 ----
\* The documents scan_file ingested: <<f, i>> is the i-th document of the
\* f-th file, standing before every document of the file that has a null
\* metadata (at which the scan of the file ends).
C3_Ingested ==
    {<<f, i>> \in (1..Len(corpus)) \X (1..(MaxDocs + 1)) :
        /\ i <= Len(corpus[f].docs)
        /\ \A j \in 1..i : corpus[f].docs[j].metadata # None}

C3_Doc(pos) == corpus[pos[1]].docs[pos[2]]

C3_Namespace(d) ==
    IF "namespace" \in DOMAIN d.metadata THEN d.metadata.namespace ELSE "default"

\* The pod-template labels of a workload: of a Pod, its own labels.
C3_Labels(d) ==
    LET holder == IF d.kind = "Pod" THEN d ELSE d.spec.template
    IN  IF "metadata" \in DOMAIN holder /\ "labels" \in DOMAIN holder.metadata
          THEN holder.metadata.labels
          ELSE EmptyDict

\* Workload w carries every key-value pair of the selector of svc.
C3_Selected(svc, w) ==
    LET labels == C3_Labels(w)
    IN  \A k \in DOMAIN svc.spec.selector :
            k \in DOMAIN labels /\ labels[k] = svc.spec.selector[k]

\* The ingested Services with a non-empty selector that no ingested
\* workload of their namespace matches.
C3_Ghosts ==
    {s \in C3_Ingested :
        /\ C3_Doc(s).kind = "Service"
        /\ "selector" \in DOMAIN C3_Doc(s).spec
        /\ DOMAIN C3_Doc(s).spec.selector # {}
        /\ ~\E w \in C3_Ingested :
              /\ C3_Doc(w).kind \in {"Deployment", "Pod", "StatefulSet", "DaemonSet"}
              /\ C3_Namespace(C3_Doc(w)) = C3_Namespace(C3_Doc(s))
              /\ C3_Selected(C3_Doc(s), C3_Doc(w))}

\* C3: after every file was scanned, audit reports a GHOST finding for an
\* ingested Service with a non-empty selector if and only if no ingested
\* workload (Deployment, Pod, StatefulSet, DaemonSet) of the Service's
\* namespace has pod-template labels that hold every key-value pair of the
\* selector; there is exactly one GHOST per such Service, in its file and
\* under its name, whether the corpus is one file or several.
C3_GhostIffNoMatch ==
    synpc = "done" =>
        LET fs == results.findings
            isGhost(f) == f.code = "GHOST"
        IN  /\ ~results.raised
            /\ Count(fs, isGhost) = Cardinality(C3_Ghosts)
            /\ \A s \in C3_Ingested :
                  LET mine(f) == /\ f.code = "GHOST"
                                 /\ f.file = corpus[s[1]].name
                                 /\ f.message.service = C3_Doc(s).metadata.name
                      same == {t \in C3_Ghosts :
                                  /\ t[1] = s[1]
                                  /\ C3_Doc(t).metadata.name = C3_Doc(s).metadata.name}
                  IN  C3_Doc(s).kind = "Service" => Count(fs, mine) = Cardinality(same)

\* C3's case: two files were scanned; one Service is a ghost, another is
\* matched by a workload that carries a label more than the selector asks.
C3_Witness ==
    /\ synpc = "done"
    /\ corpus[2].docs # <<>>
    /\ \E f \in Range(results.findings) : f.code = "GHOST"
    /\ \E s \in C3_Ingested \ C3_Ghosts :
          /\ C3_Doc(s).kind = "Service"
          /\ "selector" \in DOMAIN C3_Doc(s).spec
          /\ \E w \in C3_Ingested :
                /\ C3_Doc(w).kind = "Deployment"
                /\ C3_Namespace(C3_Doc(w)) = C3_Namespace(C3_Doc(s))
                /\ C3_Selected(C3_Doc(s), C3_Doc(w))
                /\ DOMAIN C3_Labels(C3_Doc(w)) # DOMAIN C3_Doc(s).spec.selector

\* ---- C6 ----
\* The ingested workloads the selector of the Service at s matches.
C6_Matched(s) ==
    {w \in C3_Ingested :
        /\ C3_Doc(w).kind \in {"Deployment", "Pod", "StatefulSet", "DaemonSet"}
        /\ C3_Namespace(C3_Doc(w)) = C3_Namespace(C3_Doc(s))
        /\ C3_Selected(C3_Doc(s), C3_Doc(w))}

\* The containers of a workload.
C6_Containers(d) ==
    IF d.kind = "Pod" THEN d.spec.containers ELSE d.spec.template.spec.containers

\* The workload declares a container port of the number n.
C6_HasContainerPort(d, n) ==
    \E c \in Range(C6_Containers(d)) :
        "ports" \in DOMAIN c /\ \E p \in Range(c.ports) : p.containerPort = n

\* C6: a Service port whose numeric target port equals no containerPort of
\* any workload the Service's selector matches produces a finding of the
\* audit (a port or probe gap), in the Service's file or in the file of a
\* matched workload.
C6_NumericMismatchReported ==
    synpc = "done" =>
        \A s \in C3_Ingested :
            (/\ C3_Doc(s).kind = "Service"
             /\ "selector" \in DOMAIN C3_Doc(s).spec
             /\ C6_Matched(s) # {}
             /\ \E p \in Range(C3_Doc(s).spec.ports) :
                   /\ "targetPort" \in DOMAIN p
                   /\ IsInt(p.targetPort)
                   /\ \A w \in C6_Matched(s) :
                         ~C6_HasContainerPort(C3_Doc(w), p.targetPort.int))
            => \E f \in Range(results.findings) :
                   /\ f.code \notin {"GHOST", "INGRESS_ORPHAN", "VOL_MISSING", "HPA_LOGIC"}
                   /\ f.file \in {corpus[s[1]].name} \cup {corpus[w[1]].name : w \in C6_Matched(s)}

\* ---- C5 ----
RECURSIVE C5_Sum(_)
\* The sum of the values of a dict of numbers.
C5_Sum(d) ==
    IF DOMAIN d = {} THEN 0
    ELSE LET k == CHOOSE k \in DOMAIN d : TRUE
         IN  d[k] + C5_Sum([j \in DOMAIN d \ {k} |-> d[j]])

\* The string file + ':' + code of an issue is in the baseline.
C5_InBaseline(x) == (x.file \o ":" \o x.code) \in baseline

\* C5: with show_all off, _filter_baseline suppresses an issue if and only
\* if the string file + ':' + code is in the baseline, whatever the issue's
\* line: every issue whose string is not in the baseline is returned, as
\* often as it was handed in and in the order it was handed in, none whose
\* string is in the baseline is returned, and every issue handed in is either
\* returned or counted as suppressed.
C5_BaselineSuppression ==
    (fbpc = "done" /\ ~show_all) =>
        /\ \A x \in IssueUniverse :
              LET is(y) == y = x
              IN  Count(reporting, is) = IF C5_InBaseline(x) THEN 0 ELSE Count(issues, is)
        /\ \A i, j \in 1..Len(reporting) :
              i < j => \E a, b \in 1..Len(issues) :
                          a < b /\ issues[a] = reporting[i] /\ issues[b] = reporting[j]
        /\ C5_Sum(suppressed) = Count(issues, C5_InBaseline)
        /\ Len(reporting) + C5_Sum(suppressed) = Len(issues)

\* C5's case: of two issues of one file, the one whose code the baseline
\* holds for that file is suppressed at a line and the other is returned;
\* an issue of that code in another file is returned as well.
C5_Witness ==
    /\ fbpc = "done"
    /\ ~show_all
    /\ baseline = {"svc.yaml:GHOST"}
    /\ issues = << [file |-> "svc.yaml", code |-> "GHOST", line |-> 7],
                   [file |-> "svc.yaml", code |-> "OOM_RISK", line |-> 7],
                   [file |-> "web.yaml", code |-> "GHOST", line |-> 1] >>
    /\ Len(reporting) = 2

\* ---- C4 ----
\* What a CPU quantity of the model is worth in Kubernetes, in millicores:
\* the suffix m is a thousandth of a core, the suffix k a thousand cores.
C4_Millicores ==
    ("10m" :> 10) @@ ("100m" :> 100) @@ ("200m" :> 200) @@ ("500m" :> 500)
    @@ ("250m" :> 250) @@ ("600m" :> 600) @@ ("1" :> 1000) @@ ("2" :> 2000)
    @@ ("1k" :> 1000000)

\* The containers of the document the call was made on and of the document
\* it left.
C4_Before == C6_Containers(hDoc)

C4_After == C6_Containers(hOut.doc)

\* The call injected limits into the i-th container.
C4_Injected(i) ==
    /\ ~("resources" \in DOMAIN C4_Before[i] /\ "limits" \in DOMAIN C4_Before[i].resources)
    /\ "resources" \in DOMAIN C4_After[i]
    /\ "limits" \in DOMAIN C4_After[i].resources

\* C4: whenever apply_security_patches, with apply_defaults on, injects
\* limits into a container that lacks them, the limits.cpu it injects is
\* worth at least the container's requests.cpu; it is the default of the
\* container's profile unless the request is worth more than the default, and
\* then it is the request.
C4_CpuLimitFloor ==
    (healpc = "done" /\ healFlags.apply_defaults /\ ~hOut.raised
        /\ hDoc.kind \in {"Deployment", "Pod"}) =>
        \A i \in 1..Len(C4_Before) :
            C4_Injected(i) =>
                LET limit == C4_After[i].resources.limits.cpu
                    default == Profile(C4_Before[i], i - 1).cpu
                    requested == /\ "resources" \in DOMAIN C4_Before[i]
                                 /\ "requests" \in DOMAIN C4_Before[i].resources
                                 /\ "cpu" \in DOMAIN C4_Before[i].resources.requests
                    request == C4_Before[i].resources.requests.cpu
                IN  IF requested /\ C4_Millicores[request] > C4_Millicores[default]
                      THEN limit = request
                      ELSE /\ limit = default
                           /\ requested => C4_Millicores[limit] >= C4_Millicores[request]

\* ---- C2 ----
\* C2: for a file whose documents all decode on the first pass (no piece is
\* broken and the pass reports no SYNTAX_ERROR), a second heal_file with the
\* same flags, every fix on and no dry run, changes nothing of the text and
\* reports no code of an auto-fixable rule (API_DEPRECATED, SEC_PRIVILEGED,
\* OOM_RISK).
C2_HealIdempotent ==
    (/\ Len(passes) >= 2
     /\ healFlags.apply_fixes
     /\ healFlags.apply_defaults
     /\ ~healFlags.dry_run
     /\ ~healFlags.return_content
     /\ \A seg \in Range(passes[1].given.segs) : seg.form # "broken"
     /\ \A c \in passes[1].codes : c.code # "SYNTAX_ERROR")
    => /\ passes[2].healed_final = passes[2].given
       /\ \A c \in passes[2].codes :
              c.code \notin {"API_DEPRECATED", "SEC_PRIVILEGED", "OOM_RISK"}

\* ---- C10 ----
\* The pieces of the first pass that are not blank, in order: the i-th of
\* them is healed into the i-th piece of the healed text.
C10_Ordinals == {i \in 1..Len(passes[1].given.segs) : ~IsBlank(passes[1].given.segs[i])}

C10_Given(i) == passes[1].given.segs[i]

C10_Healed(i) == passes[1].healed_final.segs[Cardinality({j \in C10_Ordinals : j <= i})]

\* The piece at i decodes to a Deployment of extensions/v1beta1.
C10_OldDeployment(i) ==
    /\ i \in C10_Ordinals
    /\ ~Load(TextRepair(C10_Given(i))).raised
    /\ IsDict(C10_Given(i).doc)
    /\ Get(C10_Given(i).doc, "kind", "") = "Deployment"
    /\ Get(C10_Given(i).doc, "apiVersion", "") = "extensions/v1beta1"

\* heal_file with apply_fixes and without apply_defaults has run once.
C10_Fixed ==
    /\ Len(passes) >= 1
    /\ healFlags.apply_fixes
    /\ ~healFlags.apply_defaults

\* The pass has reported SYNTAX_ERROR for the piece at i.
C10_Failed(i) == Code("SYNTAX_ERROR", i) \in passes[1].codes

C11_ExecText(c) ==
    Lower(Join(Get(c, "command", <<>>)) \o " " \o Join(Get(c, "args", <<>>)))

C11_Idle(c) ==
    \E sig \in {"sleep ", "tail -f /dev/null", "pause", "infinity"} :
        Contains(sig, C11_ExecText(c))

C11_Sidecar(c) ==
    \E sig \in {"istio-proxy", "envoy", "fluentd", "sidecar", "otel-collector"} :
        Contains(sig, Lower(Get(c, "image", "")))

\* The class of the i-th container (i counts from 1) and its default limits.
C11_Class(c, i) ==
    IF C11_Idle(c) THEN "dummy"
    ELSE IF C11_Sidecar(c) THEN "sidecar"
    ELSE IF i > 1 THEN "secondary"
    ELSE "primary"

C11_Defaults ==
    [dummy |-> [cpu |-> "10m", memory |-> "32Mi"],
     sidecar |-> [cpu |-> "100m", memory |-> "128Mi"],
     secondary |-> [cpu |-> "200m", memory |-> "192Mi"],
     primary |-> [cpu |-> "500m", memory |-> "256Mi"]]

\* What a memory quantity of the model is worth, in MiB.
C11_MiB ==
    ("32Mi" :> 32) @@ ("128Mi" :> 128) @@ ("192Mi" :> 192) @@ ("256Mi" :> 256)
    @@ ("300Mi" :> 300) @@ ("1Gi" :> 1024)

\* The container requests nothing that is worth more than the defaults.
C11_NoRequestAbove(c, defaults) ==
    LET reqs == Get(Get(c, "resources", EmptyDict), "requests", EmptyDict)
    IN  /\ "cpu" \in DOMAIN reqs => C4_Millicores[reqs.cpu] <= C4_Millicores[defaults.cpu]
        /\ "memory" \in DOMAIN reqs => C11_MiB[reqs.memory] <= C11_MiB[defaults.memory]

C12_Containers ==
    IF doc.kind = "Pod" THEN doc.spec.containers
    ELSE doc.spec.template.spec.containers

\* securityContext.privileged of the container is true.
C12_IsPrivileged(c) ==
    /\ "securityContext" \in DOMAIN c
    /\ c.securityContext # None
    /\ "privileged" \in DOMAIN c.securityContext
    /\ c.securityContext.privileged = PyBool(TRUE)

C12_IsFinding(f) == f.code = "SEC_PRIVILEGED"

C12_NamedContainer(f) == f.msg.container

C12_Name(c) == c.name

C13_TestExpects == "(red) HIGH"

C13_Rules == IF "rules" \in DOMAIN doc THEN doc.rules ELSE doc.spec.rules

C13_Wild(rule) == "*" \in Range(rule.verbs) /\ "*" \in Range(rule.resources)

C13_IsFinding(f) == f.code = "RBAC_WILD"

\* C13: check_rbac_security on a Role or ClusterRole returns, for every rule
\* that has '*' in both its verbs and its resources, a finding RBAC_WILD,
\* whose severity is Shield.HIGH, and that is the string the test expects,
\* the red circle followed by " HIGH".
C13_RbacWildHigh ==
    (shpc = "check_rbac_security" /\ doc.kind \in {"Role", "ClusterRole"}) =>
        LET found == SelectSeq(shOut.findings, C13_IsFinding)
        IN  /\ ~shOut.raised
            /\ Len(found) = Len(SelectSeq(C13_Rules, C13_Wild))
            /\ \A i \in 1..Len(found) :
                  found[i].severity = HIGH /\ found[i].severity = C13_TestExpects

(***************************************************************************)
(* C14.  The issues audit() returns.                                       *)
(***************************************************************************)
\* The line of an issue; 0 for the None of an issue of Synapse.
C14_Line(issue) == IF "line" \in DOMAIN issue THEN issue.line ELSE 0

C14_Deduplicated ==
    \A i, j \in 1..Len(issues) :
        (/\ issues[i].file = issues[j].file
         /\ issues[i].code = issues[j].code
         /\ C14_Line(issues[i]) = C14_Line(issues[j])) => i = j

\* A code is returned for a file both at line 1 and at a line below it.
C14_GenericAndSpecific ==
    \E i, j \in 1..Len(issues) :
        /\ issues[i].file = issues[j].file
        /\ issues[i].code = issues[j].code
        /\ C14_Line(issues[i]) = 1
        /\ C14_Line(issues[j]) > 1

\* C14: the issues AuditEngineV2.audit returns are deduplicated on (file,
\* line, code), and no code is returned for a file both as a generic line-1
\* instance and as an instance at a more specific line.
C14_OnlySpecificKept ==
    aupc = "done" => C14_Deduplicated /\ ~C14_GenericAndSpecific

(***************************************************************************)
(* C15.  The rule checks of one Shield.scan.                               *)
(***************************************************************************)
\* What each rule check scan calls returns when it is called alone.
C15_Checks ==
    { check_version_and_security(doc), check_rbac_security(doc), check_limits(doc) }
    \cup (IF all_docs # <<>>
            THEN { audit_hpa(doc, all_docs),
                   check_ingress_service_alignment(doc, all_docs) }
            ELSE {})

\* scan produced the finding f of a rule check.
C15_Produced(f) ==
    \E g \in Range(shOut.findings) : g.code = f.code /\ g.msg = f.msg

\* C15: when a rule check of Shield.scan raises on a document, the findings
\* of the rule checks that return on that document are still produced.
C15_RuleIsolation ==
    shpc = "scan" =>
        \A r \in C15_Checks : ~r.raised => \A f \in Range(r.findings) : C15_Produced(f)

(***************************************************************************)
(* C16.  What every run of the cross-resource checks was handed.           *)
(***************************************************************************)
\* The input files that hold a document to ingest.
C16_Corpus ==
    {files[j].name : j \in {j \in 1..Len(files) :
        /\ ~SafeLoadAll(files[j]).raised
        /\ \E d \in Range(SafeLoadAll(files[j]).docs) : d # None /\ "kind" \in DOMAIN d}}

\* C16: every run of the cross-resource checks (in Shield.scan, in heal_file
\* and in Synapse.audit) during audit() is handed the documents of every
\* input file: none runs before every file is ingested.
C16_IngestionBarrier ==
    \A k \in 1..Len(crossLog) : crossLog[k].sees = C16_Corpus

(***************************************************************************)
(* C17.  The fix loop over several files.                                  *)
(***************************************************************************)
\* The fix run has not ended while files are left to process.
C17_Continues == afpc = "aborted" => afFile = NumFiles

\* A step leaves the fixed content of every file that holds it.
C17_Keeps ==
    \A f \in Files : disk[f].target = "fixed" => disk'[f].target = "fixed"

\* C17: in a fix run that is no dry run, after the persist of one file
\* succeeded or failed the loop goes on with every remaining file (the run
\* does not end while files are left), and a file that holds its fixed
\* content keeps it whatever happens to a later file.
C17_IndependentWrites == []C17_Continues /\ [][C17_Keeps]_vars

(***************************************************************************)
(* C18.  The line of SYNTAX_ERROR in the syntax phase of audit().          *)
(***************************************************************************)
\* The 1-based line the decoder reported for the file, 1 where it reported
\* no position.
C18_Anchor(file) == IF file.unreadable THEN 1 ELSE file.mark + 1

\* C18: for every file that fails to decode, the syntax phase of audit()
\* reports SYNTAX_ERROR at the 1-based line the decoder reported, or at
\* line 1 when the decoder reported no position.
C18_SyntaxErrorLine ==
    \A j \in 1..fileIdx :
        SafeLoadAll(files[j]).raised =>
            \E x \in Range(issues) :
                /\ x.code = "SYNTAX_ERROR"
                /\ x.file = files[j].full
                /\ x.line = C18_Anchor(files[j])

(***************************************************************************)
(* C19.  HPA_ORPHAN.                                                       *)
(***************************************************************************)
C19_Namespace(d) ==
    IF "namespace" \in DOMAIN d.metadata THEN d.metadata.namespace ELSE "default"

\* A Deployment or StatefulSet of the corpus carries the scaleTargetRef name
\* in the namespace of the autoscaler.
C19_Resolved ==
    \E i \in 1..Len(all_docs) :
        /\ all_docs[i].kind \in {"Deployment", "StatefulSet"}
        /\ all_docs[i].metadata.name = doc.spec.scaleTargetRef.name
        /\ C19_Namespace(all_docs[i]) = C19_Namespace(doc)

\* C19: audit_hpa reports HPA_ORPHAN, of Medium severity, for an autoscaler
\* if and only if no Deployment or StatefulSet of the corpus carries the
\* scaleTargetRef name in the autoscaler's own namespace; a workload of that
\* name in another namespace does not resolve the target.
C19_HpaOrphan ==
    shpc = "audit_hpa" =>
        ((\E f \in Range(shOut.findings) : f.code = "HPA_ORPHAN" /\ f.severity = MEDIUM)
            <=> ~C19_Resolved)

(***************************************************************************)
(* C20.  INGRESS_ORPHAN in the issues audit() returns.                     *)
(***************************************************************************)
\* The documents of a file that decodes.
C20_DocsOf(file) ==
    IF SafeLoadAll(file).raised THEN {}
    ELSE {d \in Range(SafeLoadAll(file).docs) : d # None}

\* The documents of the corpus.
C20_Docs == UNION {C20_DocsOf(files[j]) : j \in 1..Len(files)}

\* An Ingress of the corpus names a Service that is no Service of its
\* namespace in the corpus.
C20_Orphaned ==
    \E d \in C20_Docs :
        /\ d.kind = "Ingress"
        /\ \E b \in Range(IngressBackends(d.spec)) :
              ~\E svc \in C20_Docs :
                  /\ svc.kind = "Service"
                  /\ svc.metadata.name = C8_ServiceName(b)
                  /\ C8_Namespace(svc) = C8_Namespace(d)

C20_IsOrphan(x) == x.code = "INGRESS_ORPHAN"

\* C20: audit() returns INGRESS_ORPHAN if and only if an Ingress backend
\* names a Service that does not exist in the Ingress's namespace in the
\* corpus and more than one file was scanned, and then with Medium
\* severity; a scan of a single file never returns INGRESS_ORPHAN.
C20_IngressOrphan ==
    aupc = "done" =>
        /\ (\E x \in Range(issues) : C20_IsOrphan(x))
              <=> (C20_Orphaned /\ Len(files) > 1)
        /\ \A x \in Range(issues) : C20_IsOrphan(x) => x.severity \in {MEDIUM, "MEDIUM"}

(***************************************************************************)
(* C21.  VOL_MISSING.                                                      *)
(***************************************************************************)
\* The references of a volume: <<kind, name>> of the object it names.
C21_Refs(vol) ==
    (IF "configMap" \in DOMAIN vol THEN {<< "ConfigMap", vol.configMap.name >>} ELSE {})
    \cup (IF "secret" \in DOMAIN vol THEN {<< "Secret", vol.secret.secretName >>} ELSE {})

\* The corpus holds an object of the kind and name of ref in namespace ns.
C21_Exists(ref, ns) ==
    \E c \in C3_Ingested :
        /\ C3_Doc(c).kind = ref[1]
        /\ C3_Doc(c).metadata.name = ref[2]
        /\ C3_Namespace(C3_Doc(c)) = ns

\* C21: after every file was scanned, audit reports VOL_MISSING, of Medium
\* severity, for a volume of a workload that names a ConfigMap or a Secret
\* if and only if the corpus holds no object of that kind and name in the
\* namespace of the workload; a Secret does not satisfy a configMap
\* reference, and a volume that names both is checked for both.
C21_VolMissing ==
    synpc = "done" =>
        \A w \in C3_Ingested :
            C3_Doc(w).kind \in {"Deployment", "Pod", "StatefulSet", "DaemonSet"} =>
                \A vol \in Range(C3_Doc(w).spec.template.spec.volumes) :
                    \A ref \in C21_Refs(vol) :
                        (\E f \in Range(results.findings) :
                            /\ f.code = "VOL_MISSING"
                            /\ f.severity = SYNAPSE_MED
                            /\ f.file = corpus[w[1]].name
                            /\ f.message = [workload |-> C3_Doc(w).metadata.name,
                                            ref |-> ref[2]])
                        <=> ~C21_Exists(ref, C3_Namespace(C3_Doc(w)))

(***************************************************************************)
(* C22.  The sentinel of a removed API.                                    *)
(***************************************************************************)
\* The piece at i of the first pass decodes to a document whose apiVersion
\* and kind the deprecation table resolves to the sentinel.
C22_Removed(i) ==
    /\ i \in C10_Ordinals
    /\ ~Load(TextRepair(sanitize(C10_Given(i)).text)).raised
    /\ IsDict(C10_Given(i).doc)
    /\ Get(C10_Given(i).doc, "apiVersion", "") \in DOMAIN DEPRECATIONS
    /\ StartsWith(Replacement(C10_Given(i).doc.apiVersion,
                              Get(C10_Given(i).doc, "kind", "")), "REMOVED")

\* C22: under every combination of flags, heal_file reports API_DEPRECATED
\* for a document whose apiVersion and kind resolve to the 'REMOVED'
\* sentinel (extensions/v1beta1 PodSecurityPolicy) and leaves the apiVersion
\* of the document as it was.
C22_RemovedNotApplied ==
    Len(passes) >= 1 =>
        \A i \in DOMAIN passes[1].given.segs :
            C22_Removed(i) =>
                /\ Code("API_DEPRECATED", i) \in passes[1].codes
                /\ C10_Healed(i).doc.apiVersion = C10_Given(i).doc.apiVersion

\* A PodSecurityPolicy of extensions/v1beta1 went through a pass that applies
\* the API fixes, next to a Deployment whose apiVersion the pass replaced.
C22_Witness ==
    /\ Len(passes) >= 1
    /\ healFlags.apply_fixes
    /\ \E i \in DOMAIN passes[1].given.segs :
          C22_Removed(i) /\ C10_Given(i).doc.kind = "PodSecurityPolicy"
    /\ \E i \in DOMAIN passes[1].given.segs :
          /\ C10_OldDeployment(i)
          /\ C10_Healed(i).doc.apiVersion = "apps/v1"

(***************************************************************************)
(* C23.  Tabs after a fix.                                                 *)
(***************************************************************************)
\* The text holds a tab character.
C23_HasTabs(text) == \E seg \in Range(text.segs) : seg.form = "tabs"

C24_ReadsSecrets(rule) ==
    /\ "secrets" \in Range(rule.resources)
    /\ Range(rule.verbs) \cap {"*", "get", "list", "watch"} # {}

C24_IsFinding(f) == f.code = "RBAC_SECRET"

\* C24: check_rbac_security on a Role or ClusterRole returns one RBAC_SECRET
\* finding of Medium severity for every rule whose resources include
\* 'secrets' and whose verbs include '*', 'get', 'list' or 'watch', a rule
\* with '*' in both its verbs and its resources included.
C24_RbacSecret ==
    (shpc = "check_rbac_security" /\ doc.kind \in {"Role", "ClusterRole"}) =>
        LET found == SelectSeq(shOut.findings, C24_IsFinding)
        IN  /\ Len(found) = Len(SelectSeq(C13_Rules, C24_ReadsSecrets))
            /\ \A i \in 1..Len(found) : found[i].severity = MEDIUM

(***************************************************************************)
(* C25.  The privileged auto-fix.                                          *)
(***************************************************************************)
\* The containers of the pod template of a Deployment document.
C25_Containers(d) ==
    Get(Get(Get(Get(d, "spec", EmptyDict), "template", EmptyDict), "spec", EmptyDict),
        "containers", <<>>)

\* The piece at i of the first pass decodes to a Deployment.
C25_Workload(i) ==
    /\ i \in C10_Ordinals
    /\ ~Load(TextRepair(C10_Given(i))).raised
    /\ IsDict(C10_Given(i).doc)
    /\ Get(C10_Given(i).doc, "kind", "") = "Deployment"

\* C25: after heal_file with apply_fixes on, securityContext.privileged is
\* false on every container of a workload document where it was true.
C25_PrivilegedFixed ==
    (Len(passes) >= 1 /\ healFlags.apply_fixes) =>
        \A i \in DOMAIN passes[1].given.segs :
            C25_Workload(i) =>
                \A k \in DOMAIN C25_Containers(C10_Given(i).doc) :
                    C12_IsPrivileged(C25_Containers(C10_Given(i).doc)[k]) =>
                        /\ k \in DOMAIN C25_Containers(C10_Healed(i).doc)
                        /\ C25_Containers(C10_Healed(i).doc)[k].securityContext.privileged
                               = PyBool(FALSE)

(***************************************************************************)
(* C26.  Fields heal_file never fixes.                                     *)
(***************************************************************************)
\* The pieces of the pass p that are not blank, in order.
C26_Ordinals(p) == {i \in 1..Len(passes[p].given.segs) : ~IsBlank(passes[p].given.segs[i])}

C26_Given(p, i) == passes[p].given.segs[i].doc

C26_Healed(p, i) ==
    passes[p].healed_final.segs[Cardinality({j \in C26_Ordinals(p) : j <= i})].doc

\* The pod spec of the template of a document.
C26_PodSpec(d) ==
    Get(Get(Get(d, "spec", EmptyDict), "template", EmptyDict), "spec", EmptyDict)

\* automountServiceAccountToken of a pod spec, None where it is not set.
C26_Token(d) == Get(C26_PodSpec(d), "automountServiceAccountToken", None)

\* The verbs and the resources of the rules of a document.
C26_Grants(d) ==
    LET grant(rule) == [verbs |-> rule.verbs, resources |-> rule.resources]
    IN  Map(Get(d, "rules", <<>>), grant)

C26_Reported(p, code) == \E c \in passes[p].codes : c.code = code

\* The pass p has taken the document at i through every step.
C26_Through(p, i) ==
    /\ i \in C26_Ordinals(p)
    /\ IsDict(C26_Given(p, i))
    /\ Code("SYNTAX_ERROR", i) \notin passes[p].codes

\* C26: under every combination of flags heal_file leaves
\* automountServiceAccountToken of every pod template and the verbs and
\* resources of every RBAC rule as they were before the call; a pod template
\* without the field is reported as SEC_TOKEN_AUDIT and a rule with wildcards
\* or a grant on secrets as RBAC_WILD or RBAC_SECRET, and no more is done.
C26_NeverFixed ==
    \A p \in DOMAIN passes :
        \A i \in C26_Ordinals(p) :
            IsDict(C26_Given(p, i)) =>
                /\ C26_Token(C26_Healed(p, i)) = C26_Token(C26_Given(p, i))
                /\ C26_Grants(C26_Healed(p, i)) = C26_Grants(C26_Given(p, i))
                /\ (C26_Through(p, i) /\ C26_Given(p, i).kind = "Deployment"
                        /\ C26_Token(C26_Given(p, i)) = None)
                       => C26_Reported(p, "SEC_TOKEN_AUDIT")
                /\ (C26_Through(p, i) /\ \E r \in Range(Get(C26_Given(p, i), "rules", <<>>)) :
                                            C13_Wild(r))
                       => C26_Reported(p, "RBAC_WILD")
                /\ (C26_Through(p, i) /\ \E r \in Range(Get(C26_Given(p, i), "rules", <<>>)) :
                                            C24_ReadsSecrets(r) /\ ~C13_Wild(r))
                       => C26_Reported(p, "RBAC_SECRET")

\* A pass with both fixing flags on has rewritten a Deployment whose pod
\* template sets no token field, next to a role with a wild rule, and has
\* reported both.
C26_Witness ==
    /\ Len(passes) >= 1
    /\ healFlags.apply_fixes /\ healFlags.apply_defaults
    /\ \E i, j \in C26_Ordinals(1) :
          /\ C26_Through(1, i) /\ C26_Through(1, j)
          /\ C26_Given(1, i).kind = "Deployment"
          /\ C26_Token(C26_Given(1, i)) = None
          /\ C26_Healed(1, i) # C26_Given(1, i)
          /\ \E r \in Range(Get(C26_Given(1, j), "rules", <<>>)) : C13_Wild(r)
          /\ C26_Reported(1, "SEC_TOKEN_AUDIT") /\ C26_Reported(1, "RBAC_WILD")

(***************************************************************************)
(* C27.  Lines across documents.                                           *)
(***************************************************************************)
\* C27: in a file of more than one document that the textual repair leaves
\* as it is, every code for a field of the k-th document carries the line of
\* the file the field lies on, for every k, and every line is 1 at least.
C27_LineAccuracy ==
    (healpc = "lines done" /\ Len(hOut.doc) >= 2) =>
        \A c \in hOut.codes : c.line = c.row /\ c.line >= 1

(***************************************************************************)
(* C28.  The floor of the memory limit.                                    *)
(***************************************************************************)
\* What a memory quantity of the model is worth, in KiB.
C28_KiB ==
    ("32Mi" :> 32768) @@ ("128Mi" :> 131072) @@ ("192Mi" :> 196608)
    @@ ("256Mi" :> 262144) @@ ("100Mi" :> 102400) @@ ("300Mi" :> 307200)
    @@ ("1Gi" :> 1048576) @@ ("131072Ki" :> 131072) @@ ("200000Ki" :> 200000)
    @@ ("262144Ki" :> 262144) @@ ("262145Ki" :> 262145) @@ ("32769Ki" :> 32769)

\* C28: whenever apply_security_patches, with apply_defaults on, injects
\* limits into a container, the limits.memory it injects is worth no less
\* than the container's requests.memory, for a request written as an integer
\* with a Ki, Mi or Gi suffix, a request that is no whole number of MiB
\* included.
C28_MemLimitFloor ==
    (healpc = "done" /\ healFlags.apply_defaults /\ ~hOut.raised) =>
        \A i \in 1..Len(C4_Before) :
            (C4_Injected(i) /\ "memory" \in DOMAIN C4_Before[i].resources.requests)
                => C28_KiB[C4_After[i].resources.limits.memory]
                       >= C28_KiB[C4_Before[i].resources.requests.memory]

(***************************************************************************)
(* C29.  No write outside a live fix.                                      *)
(***************************************************************************)
\* What a step that changes the text of the file is: the turn of the fix
\* loop, in a run that is no dry run, on a file whose healed text differs
\* from the text it had; or heal_file called by itself with neither
\* return_content nor dry_run.
C29_Step ==
    content' # content =>
        \/ /\ healpc = "fix"
           /\ ~healFlags.dry_run
           /\ passes'[Len(passes')].given = content
           /\ passes'[Len(passes')].healed_final # content
        \/ /\ healpc = "heal"
           /\ ~healFlags.return_content
           /\ ~healFlags.dry_run

\* C29: audit() and a fix run with dry_run set never change a manifest
\* file, and heal_file called with return_content or with dry_run returns
\* without writing; the only step of a command that changes a file is
\* _atomic_fix in a fix that is no dry run, and only on a file whose healed
\* content differs from the original.
C29_NoWriteOutsideLiveFix == [][C29_Step]_vars

\* A dry-run fix has ended on a file the healer would change, and the file
\* holds the text it had.
C29_Witness ==
    /\ healpc = "rendered"
    /\ healFlags.dry_run
    /\ Len(passes) = 1
    /\ passes[1].codes # {}
    /\ passes[1].healed_final # passes[1].given
    /\ content = passes[1].given

(***************************************************************************)
(* C30.  The findings of Shield in the issues audit() returns.             *)
(***************************************************************************)
\* The corpus of Synapse once the file j was scanned: the documents of the
\* files up to j.
C30_CorpusAt(j) ==
    SelectSeq(syn.all_docs, LAMBDA d : \E k \in 1..j : d._origin_file = files[k].name)

\* The findings Shield.scan produces for the document d of the file j.
C30_Findings(d, j) ==
    LET r == scan(d, C30_CorpusAt(j))
    IN  IF r.raised THEN {} ELSE Range(r.findings)

\* C30: for every finding a rule of Shield produces for a document of a
\* scanned file, audit() returns an issue for that file with the same code
\* and with the severity the rule gave it; no finding is dropped and no
\* severity is replaced on the way.
C30_FindingsSurvive ==
    aupc = "done" =>
        \A j \in 1..Len(files) :
            \A d \in Range(syn.all_docs) :
                d._origin_file = files[j].name =>
                    \A f \in C30_Findings(d, j) :
                        \E x \in Range(issues) :
                            /\ x.file = files[j].full
                            /\ x.code = f.code
                            /\ x.severity = f.severity

=============================================================================
